---------------------------- MODULE Spec2Model ----------------------------
(***************************************************************************)
(* Multi-round inspection planning for squads of drones: the area of       *)
(* interest (AoI), tours, the multi-round solution and its builder, the    *)
(* pruning pass, the Greedy-and-Prune planners (TC-GaP, AC-GaP), the       *)
(* Christofides TSP heuristic and the drone-trajectory generation.         *)
(*                                                                         *)
(* Python lists are sequences (1-based here, the 0-based graph indexes are *)
(* kept as values), Python dicts are sequences of <<key, value>> pairs in  *)
(* insertion order, Python sets are sets.                                  *)
(***************************************************************************)
EXTENDS Integers, Sequences, FiniteSets, TLC

(***************************************************************************)
(* Bounds of the model.                                                    *)
(***************************************************************************)
\* number of target points of the AoI
NTargets == 3
\* number of depots of the AoI
NDepots == 2
\* longest list of targets a candidate tour is built from
MaxTourLen == 2
\* most tours in one drone's catalog
MaxCatalog == 2
\* largest max_rounds given to a planner
MaxRounds == 2
\* most tours appended to a hand-made solution
MaxAppend == 3
\* most tours in a planner's whole catalog
MaxCatalogTotal == 3
\* most nodes of a graph given to Christofides directly
MaxNodes == 4
\* largest edge weight of such a graph
MaxWeight == 3
\* largest hovering time of the AoI
MaxHover == 1
\* largest speed of a drone
MaxSpeed == 2
\* largest autonomy of a drone
MaxAutonomy == 8
\* longest list of targets of a tour in a plan of two long tours
MaxLongTourLen == 3
\* longest list of targets of a tour in a catalog with any depots
MaxMixedTourLen == 1
\* number of different coordinates given to the AoI constructor
NPoints == 3
\* longest list of depots, and of targets, given to the AoI constructor
MaxAoIList == 2
\* longest list of nodes a tour given to the Tour constructor is closed from
MaxTourNodes == 3
\* largest weight of a viable path
MaxViableWeight == 2

VARIABLES
    pc,                 \* position of the running operation
    uavs_tours,         \* AbstractGreedyAndPrune.uavs_tours: catalog, one list of tours per uav index
    max_rounds,         \* AbstractGreedyAndPrune.max_rounds
    strategy,           \* "total" (TotalGreedyCoverage) or "cumulative" (CumulativeGreedyCoverage)
    residual_ntours_to_assign,  \* solution(): residual rounds per uav index
    tour_to_assign,     \* solution(): residual rounds in total
    visited_points,     \* solution(): set of visited target indexes
    choice,             \* solution(): the last (itd_uav, ind_tour) returned by local_optimal_choice
    call_visited_points,    \* local_optimal_choice: visited_points as passed to the last call
    call_residual,      \* local_optimal_choice: residual_ntours_to_assign as passed to the last call
    iterations,         \* number of greedy iterations executed so far
    selections,         \* solution(): the (itd_uav, ind_tour) selected so far, in the order of the loop
    mrs_builder,        \* MultiRoundSolutionBuilder.drone_and_tours of the solution under construction
    mrs,                \* the MultiRoundSolution built from mrs_builder (derived fields)
    pruned,             \* the MultiRoundSolution returned by pruning_multiroundsolution
    pruned_again,       \* the MultiRoundSolution returned by pruning the pruned one
    graph,              \* Christofides.compute: the graph, [nodes, w]
    depot_index,        \* Christofides.compute, compute_trajectories: graph index of the depot
    mst,                \* Christofides.compute: edges of the minimum spanning tree
    perfect_match,      \* Christofides.compute: edges returned by min_weight_matching
    eu_tour,            \* Christofides.compute: the Eulerian circuit, a list of edges
    tsp_tour,           \* Christofides.compute: the returned tour, a list of edges
    node_hovering_time, \* AoI.node_hovering_time
    traj_drone,         \* compute_trajectories: the drone, [speed, autonomy]
    tsp_nodes,          \* compute_trajectories: the nodes of tsp_tour in order
    tsp_node_index,     \* compute_trajectories: i of the loop over the tsp nodes
    output_tours,       \* compute_trajectories: the tours collected so far
    aoi_args,           \* AoI.__init__: the arguments, [depots, target_points]
    aoi_obj,            \* AoI.__init__: the AoI constructed
    tour_args,          \* Tour.__init__: the argument edges_w_coords
    tour_obj            \* Tour.__init__: the Tour constructed

vars == <<pc, uavs_tours, max_rounds, strategy, residual_ntours_to_assign,
          tour_to_assign, visited_points, choice, call_visited_points, call_residual,
          iterations, selections, mrs_builder, mrs, pruned, pruned_again, graph, depot_index, mst, perfect_match,
          eu_tour, tsp_tour, node_hovering_time, traj_drone, tsp_nodes, tsp_node_index,
          output_tours, aoi_args, aoi_obj, tour_args, tour_obj>>

\* the variables of the constructors of AoI and Tour
entity_vars == <<aoi_args, aoi_obj, tour_args, tour_obj>>

\* no AoI and no Tour is under construction
EntityIdle ==
    /\ aoi_args = <<>>
    /\ aoi_obj = "none"
    /\ tour_args = <<>>
    /\ tour_obj = "none"

\* the variables of the planners and of the solutions
plan_vars == <<uavs_tours, max_rounds, strategy, residual_ntours_to_assign,
               tour_to_assign, visited_points, choice, call_visited_points, call_residual,
               iterations, selections, mrs_builder, mrs, pruned, pruned_again>>

\* the variables of Christofides.compute
tsp_vars == <<graph, depot_index, mst, perfect_match, eu_tour, tsp_tour>>

\* the variables of compute_trajectories
drone_vars == <<node_hovering_time, traj_drone, tsp_nodes, tsp_node_index, output_tours>>

traj_vars == <<tsp_vars, drone_vars>>

\* no trajectory generation is running
DroneIdle ==
    /\ node_hovering_time = 0
    /\ traj_drone = [speed |-> 1, autonomy |-> 0]
    /\ tsp_nodes = <<>>
    /\ tsp_node_index = 0
    /\ output_tours = <<>>

\* no TSP computation and no trajectory generation is running
TrajIdle ==
    /\ graph = [nodes |-> {}, w |-> <<>>]
    /\ depot_index = 0
    /\ mst = {}
    /\ perfect_match = {}
    /\ eu_tour = <<>>
    /\ tsp_tour = <<>>
    /\ DroneIdle

(***************************************************************************)
(* Generic helpers: lists, dicts.                                          *)
(***************************************************************************)
Range(s) == {s[i] : i \in 1..Len(s)}

Max2(a, b) == IF a >= b THEN a ELSE b

\* list.index(x): 0-based position of the first occurrence
ListIndex(s, x) == (CHOOSE i \in 1..Len(s) : s[i] = x /\ \A j \in 1..(i-1) : s[j] # x) - 1

\* all sequences over S of length lo..hi
SeqsOf(S, lo, hi) == UNION {[1..n -> S] : n \in lo..hi}

DictKeys(d) == [i \in 1..Len(d) |-> d[i][1]]

DictHas(d, k) == \E i \in 1..Len(d) : d[i][1] = k

DictGet(d, k) == (CHOOSE p \in Range(d) : p[1] = k)[2]

\* d[k] = v: an existing key keeps its position, a new key goes last
DictSet(d, k, v) ==
    IF DictHas(d, k)
    THEN [i \in 1..Len(d) |-> IF d[i][1] = k THEN <<k, v>> ELSE d[i]]
    ELSE Append(d, <<k, v>>)

(***************************************************************************)
(* AoI: the points and the graph indexes.                                  *)
(***************************************************************************)
\* AoI.target_points: coordinates of the targets (pairwise distinct)
target_points == [i \in 1..NTargets |-> <<i, 0>>]

\* AoI.depots: coordinates of the depots (pairwise distinct, no target among them)
depots == [i \in 1..NDepots |-> <<(i - 1) * (NTargets + 1), 0>>]

n_targets == Len(target_points)

n_depots == Len(depots)

TargetIndexes == 0..(n_targets - 1)

DepotIndexes == n_targets..(n_targets + n_depots - 1)

\* AoI.node_index(coords)
node_index(coords) ==
    IF coords \in Range(target_points) THEN ListIndex(target_points, coords)
    ELSE IF coords \in Range(depots) THEN n_targets + ListIndex(depots, coords)
    ELSE -1

\* aoi.graph.nodes[i]["pos"]
NodePos(i) == IF i < n_targets THEN target_points[i + 1] ELSE depots[i - n_targets + 1]

(***************************************************************************)
(* Tour.                                                                   *)
(***************************************************************************)
\* value of an attribute that was never assigned
Unset == "unset"

\* Tour.__init__: the loop over edges_w_coords, from edge k on
RECURSIVE TourScan(_, _, _)
TourScan(edges_w_coords, k, t) ==
    IF k > Len(edges_w_coords) THEN t
    ELSE LET ec == edges_w_coords[k]
             t1 == IF ec[1] \in Range(depots)
                   THEN [t EXCEPT !.depot_index = node_index(ec[1]),
                                  !.depot_coord = ec[1]]
                   ELSE [t EXCEPT !.targets_indexes = Append(@, node_index(ec[1])),
                                  !.targets_coords = Append(@, ec[1])]
             t2 == [t1 EXCEPT !.edges_w_indexes =
                                 Append(@, <<node_index(ec[1]), node_index(ec[2])>>)]
         IN  TourScan(edges_w_coords, k + 1, t2)

\* Tour.__init__(aoi, edges_w_coords)
Tour(edges_w_coords) ==
    TourScan(edges_w_coords, 1,
             [edges_w_coords |-> edges_w_coords,
              targets_indexes |-> <<>>,
              targets_coords |-> <<>>,
              edges_w_indexes |-> <<>>,
              depot_index |-> Unset,
              depot_coord |-> Unset])

\* Tour.from_graph_indexes(aoi, edges_w_indexes)
from_graph_indexes(edges_w_indexes) ==
    Tour([i \in 1..Len(edges_w_indexes) |->
            <<NodePos(edges_w_indexes[i][1]), NodePos(edges_w_indexes[i][2])>>])

\* utility.build_tour_from_ordered_nodes(nodes)
build_tour_from_ordered_nodes(nodes) ==
    [t_i \in 1..Len(nodes) |->
        IF t_i = Len(nodes) THEN <<nodes[t_i], nodes[1]>>
        ELSE <<nodes[t_i], nodes[t_i + 1]>>]

\* Tour.__eq__
TourEq(a, b) == a.edges_w_indexes = b.edges_w_indexes

\* the tour a caller builds as in build_random_tour: the depot followed by a
\* list of targets (drawn with repetition), closed and given to Tour.from_coordinates
RandomTour(depot, list_of_targets) ==
    Tour(build_tour_from_ordered_nodes(
            <<NodePos(depot)>> \o
            [i \in 1..Len(list_of_targets) |-> NodePos(list_of_targets[i])]))

\* the lists of targets such tours are built from
TargetLists == SeqsOf(TargetIndexes, 0, MaxTourLen)

(***************************************************************************)
(* MultiRoundSolutionBuilder.  A builder is its drone_and_tours dict (the  *)
(* set "drones" holds the same keys).                                      *)
(***************************************************************************)
\* MultiRoundSolutionBuilder.__init__
EmptyBuilder == <<>>

\* MultiRoundSolutionBuilder.add_drone (the caller checks the assertion)
add_drone(d, drone) == DictSet(d, drone, <<>>)

\* MultiRoundSolutionBuilder.append_tour (the caller checks the assertion)
append_tour(d, drone, tour) == DictSet(d, drone, Append(DictGet(d, drone), tour))

\* MultiRoundSolutionBuilder.add_drone_with_tours (the caller checks the assertion)
add_drone_with_tours(d, drone, tours) == DictSet(d, drone, tours)

\* number of tours held by a drone_and_tours dict
NTours(d) == LET RECURSIVE Cnt(_)
                 Cnt(k) == IF k > Len(d) THEN 0 ELSE Len(d[k][2]) + Cnt(k + 1)
             IN  Cnt(1)

(***************************************************************************)
(* MultiRoundSolution.                                                     *)
(***************************************************************************)
\* a faulty round count: it starts at 1 instead of 0
SolMaxRounds_fromOne(d) ==
    LET RECURSIVE Mx(_)
        Mx(k) == IF k > Len(d) THEN 1 ELSE Max2(Len(d[k][2]), Mx(k + 1))
    IN  Mx(1)

\* MultiRoundSolution.__init__: self.max_rounds
SolMaxRounds(d) ==
    LET RECURSIVE Mx(_)
        Mx(k) == IF k > Len(d) THEN 0 ELSE Max2(Len(d[k][2]), Mx(k + 1))
    IN  Mx(1)

\* every tour of a drone_and_tours dict
ToursOf(d) == UNION {Range(d[k][2]) : k \in 1..Len(d)}

\* MultiRoundSolution.__init__: self.covered_graph_nodes
CoveredGraphNodes(d) ==
    UNION {{t.edges_w_indexes[e][1] : e \in 1..Len(t.edges_w_indexes)} : t \in ToursOf(d)}

\* MultiRoundSolution.__init__: self.covered_graph_targets (coordinates)
CoveredGraphTargets(d) ==
    {NodePos(e0) : e0 \in CoveredGraphNodes(d)} \ Range(depots)

\* MultiRoundSolution.__targets_covered_on_each_round: rounds round.. of the
\* loop, already_visited as it stands
RECURSIVE CoveredOnEachRound(_, _, _, _)
CoveredOnEachRound(d, maxr, round, already_visited) ==
    IF round >= maxr THEN <<>>
    ELSE LET seen == UNION {Range(d[k][2][round + 1].targets_coords) :
                               k \in {j \in 1..Len(d) : round < Len(d[j][2])}}
             new == seen \ already_visited
         IN  <<new>> \o CoveredOnEachRound(d, maxr, round + 1, already_visited \cup new)

\* the value of mrs and pruned before a solution exists
NoSolution ==
    [built |-> FALSE, ndrones |-> 0, max_rounds |-> 0,
     covered_graph_nodes |-> {}, covered_graph_targets |-> {},
     targets_covered_on_each_round |-> <<>>]

\* MultiRoundSolution.__init__(builder): the fields derived at construction.
\* drone_and_tours and drones are the builder's own objects, not copies.
MultiRoundSolution(d) ==
    [built |-> TRUE,
     ndrones |-> Len(d),
     max_rounds |-> SolMaxRounds(d),
     covered_graph_nodes |-> CoveredGraphNodes(d),
     covered_graph_targets |-> CoveredGraphTargets(d),
     targets_covered_on_each_round |-> CoveredOnEachRound(d, SolMaxRounds(d), 0, {})]

\* MultiRoundSolution.coverage_score
coverage_score(sol) == Cardinality(sol.covered_graph_targets)

(***************************************************************************)
(* utility.pruning_multiroundsolution.                                     *)
(***************************************************************************)
\* a faulty filter: the kept targets come out in reverse order
NewTourNodes_reversed(actual_tour, already_covered_nodes) ==
    LET kept == SelectSeq(actual_tour.targets_indexes,
                          LAMBDA node : node \notin already_covered_nodes)
    IN  <<actual_tour.depot_index>> \o [i \in 1..Len(kept) |-> kept[Len(kept) + 1 - i]]

\* the targets of a tour that are kept: lines 38-41
NewTourNodes(actual_tour, already_covered_nodes) ==
    <<actual_tour.depot_index>> \o
    SelectSeq(actual_tour.targets_indexes, LAMBDA node : node \notin already_covered_nodes)

\* a faulty iteration: already_covered_nodes takes the tour's targets before
\* the tour is filtered, so every target of the tour is filtered out
PruneVisit_coverFirst(d, round, k, st) ==
    IF round >= Len(d[k][2]) THEN st
    ELSE LET actual_tour == d[k][2][round + 1]
             covered == st.covered \cup Range(actual_tour.targets_indexes)
             new_tour_nodes == NewTourNodes(actual_tour, covered)
         IN  [covered |-> covered,
              builder |-> IF Len(new_tour_nodes) > 1
                          THEN append_tour(st.builder, d[k][1],
                                   from_graph_indexes(build_tour_from_ordered_nodes(new_tour_nodes)))
                          ELSE st.builder]

\* a faulty iteration: already_covered_nodes never takes the tour's targets
PruneVisit_noCover(d, round, k, st) ==
    IF round >= Len(d[k][2]) THEN st
    ELSE LET actual_tour == d[k][2][round + 1]
             new_tour_nodes == NewTourNodes(actual_tour, st.covered)
         IN  [covered |-> st.covered,
              builder |-> IF Len(new_tour_nodes) > 1
                          THEN append_tour(st.builder, d[k][1],
                                   from_graph_indexes(build_tour_from_ordered_nodes(new_tour_nodes)))
                          ELSE st.builder]

\* a faulty iteration: a tour that keeps no target is appended all the same
PruneVisit_keepDepotOnly(d, round, k, st) ==
    IF round >= Len(d[k][2]) THEN st
    ELSE LET actual_tour == d[k][2][round + 1]
             new_tour_nodes == NewTourNodes(actual_tour, st.covered)
         IN  [covered |-> st.covered \cup Range(actual_tour.targets_indexes),
              builder |-> append_tour(st.builder, d[k][1],
                              from_graph_indexes(build_tour_from_ordered_nodes(new_tour_nodes)))]

\* one (round, drone) iteration of the double loop: lines 34-48.
\* st = [covered: already_covered_nodes, builder: pruned_solution]
PruneVisit(d, round, k, st) ==
    IF round >= Len(d[k][2]) THEN st
    ELSE LET actual_tour == d[k][2][round + 1]
             new_tour_nodes == NewTourNodes(actual_tour, st.covered)
         IN  [covered |-> st.covered \cup Range(actual_tour.targets_indexes),
              builder |-> IF Len(new_tour_nodes) > 1
                          THEN append_tour(st.builder, d[k][1],
                                   from_graph_indexes(build_tour_from_ordered_nodes(new_tour_nodes)))
                          ELSE st.builder]

\* a faulty double loop: within a round the drones are taken last to first
RECURSIVE PruneLoop_lastDroneFirst(_, _, _, _, _)
PruneLoop_lastDroneFirst(d, maxr, round, k, st) ==
    IF round >= maxr THEN st
    ELSE IF k > Len(d) THEN PruneLoop_lastDroneFirst(d, maxr, round + 1, 1, st)
    ELSE PruneLoop_lastDroneFirst(d, maxr, round, k + 1,
                                  PruneVisit(d, round, Len(d) + 1 - k, st))

\* a faulty double loop: the rounds are taken last to first
RECURSIVE PruneLoop_lastRoundFirst(_, _, _, _, _)
PruneLoop_lastRoundFirst(d, maxr, round, k, st) ==
    IF round >= maxr THEN st
    ELSE IF k > Len(d) THEN PruneLoop_lastRoundFirst(d, maxr, round + 1, 1, st)
    ELSE PruneLoop_lastRoundFirst(d, maxr, round, k + 1,
                                  PruneVisit(d, maxr - 1 - round, k, st))

\* the double loop, from (round, k) on: round-major, drone-minor
RECURSIVE PruneLoop(_, _, _, _, _)
PruneLoop(d, maxr, round, k, st) ==
    IF round >= maxr THEN st
    ELSE IF k > Len(d) THEN PruneLoop(d, maxr, round + 1, 1, st)
    ELSE PruneLoop(d, maxr, round, k + 1, PruneVisit(d, round, k, st))

\* the builder after lines 26-28: every drone of mrs, without tours
PrunedBuilderInit(d) == [k \in 1..Len(d) |-> <<d[k][1], <<>>>>]

\* pruning_multiroundsolution(mrs): the drone_and_tours of the returned solution.
\* sol holds the derived fields of mrs, d is mrs.drone_and_tours
pruning_drone_and_tours(sol, d) ==
    PruneLoop(d, sol.max_rounds, 0, 1,
              [covered |-> {}, builder |-> PrunedBuilderInit(d)]).builder

\* pruning_multiroundsolution(mrs): the returned solution, with its dict
pruning_multiroundsolution(sol, d) ==
    LET pd == pruning_drone_and_tours(sol, d)
    IN  [sol |-> MultiRoundSolution(pd), drone_and_tours |-> pd]

\* the value of pruned before pruning ran
NotPruned == [sol |-> NoSolution, drone_and_tours |-> <<>>]

(***************************************************************************)
(* AbstractGreedyAndPrune and its two strategies.  uavs_tours maps the uav *)
(* index 0..nuavs-1 to its list of tours; uavs[i] is the drone with id i.  *)
(***************************************************************************)
\* most drones given to a planner or added to a builder
MaxUavs == 2

nuavs == Len(uavs_tours)

\* self.uavs_tours[i], i the 0-based uav index
UavTours(i) == uavs_tours[i + 1]

\* a faulty check: only the tours of the first uav are looked at
check_depots_firstUav(catalog) ==
    /\ \A t \in 1..Len(catalog[1]) : catalog[1][t].depot_coord # Unset
    /\ Cardinality({catalog[1][t].depot_coord : t \in 1..Len(catalog[1])}) = 1

\* AbstractGreedyAndPrune.__check_depots: TRUE when no assertion fails
check_depots(catalog) ==
    \A u \in 1..Len(catalog) :
        /\ \A t \in 1..Len(catalog[u]) : catalog[u][t].depot_coord # Unset
        /\ Cardinality({catalog[u][t].depot_coord : t \in 1..Len(catalog[u])}) = 1

\* AbstractGreedyAndPrune.__reachable_points
reachable_points ==
    UNION {UNION {Range(t.targets_indexes) : t \in Range(uavs_tours[u])} :
              u \in 1..Len(uavs_tours)}

\* a faulty stop condition: the budget of rounds is not looked at
greedy_stop_condition_noBudget(visited, to_assign) ==
    Cardinality(reachable_points \ visited) = 0

\* a faulty stop condition: the loop also stops once any point is visited
greedy_stop_condition_anyVisited(visited, to_assign) ==
    to_assign = 0 \/ Cardinality(reachable_points \ visited) = 0 \/ visited # {}

\* AbstractGreedyAndPrune.greedy_stop_condition
greedy_stop_condition(visited, to_assign) ==
    to_assign = 0 \/ Cardinality(reachable_points \ visited) = 0

\* a faulty evaluation: the visited points are not taken away
evaluate_tour_total_allPoints(tour, visited) ==
    Cardinality(Range(tour.targets_indexes))

\* TotalGreedyCoverage.evaluate_tour
evaluate_tour_total(tour, visited) ==
    Cardinality(Range(tour.targets_indexes) \ visited)

\* a faulty evaluation: the residual rounds are not multiplied in
evaluate_tour_cumulative_noRounds(tour, round_count, visited) ==
    Cardinality(Range(tour.targets_indexes) \ visited)

\* CumulativeGreedyCoverage.evaluate_tour
evaluate_tour_cumulative(tour, round_count, visited) ==
    round_count * Cardinality(Range(tour.targets_indexes) \ visited)

\* a faulty quality: the fewer new targets the better
Quality_fewestFirst(strat, tour, uav_residual_rounds, visited) ==
    IF strat = "total" THEN 0 - evaluate_tour_total(tour, visited)
    ELSE 0 - evaluate_tour_cumulative(tour, uav_residual_rounds, visited)

\* the quality computed in the loop body of local_optimal_choice, per strategy
Quality(strat, tour, uav_residual_rounds, visited) ==
    IF strat = "total" THEN evaluate_tour_total(tour, visited)
    ELSE evaluate_tour_cumulative(tour, uav_residual_rounds, visited)

\* a faulty double loop: the tours of an agent without residual rounds are
\* candidates too
RECURSIVE ChoiceDict_anyResidual(_, _, _, _, _, _)
ChoiceDict_anyResidual(strat, visited, residual, ind_uav, ind_tour, choice_dict) ==
    IF ind_uav >= nuavs THEN choice_dict
    ELSE IF ind_tour < Len(UavTours(ind_uav))
    THEN ChoiceDict_anyResidual(strat, visited, residual, ind_uav, ind_tour + 1,
            DictSet(choice_dict,
                    Quality(strat, UavTours(ind_uav)[ind_tour + 1],
                            residual[ind_uav + 1], visited),
                    <<ind_uav, ind_tour>>))
    ELSE ChoiceDict_anyResidual(strat, visited, residual, ind_uav + 1, 0, choice_dict)

\* local_optimal_choice: the double loop filling choice_dict, from
\* (ind_uav, ind_tour) on; choice_dict[quality] = (ind_uav, ind_tour)
RECURSIVE ChoiceDict(_, _, _, _, _, _)
ChoiceDict(strat, visited, residual, ind_uav, ind_tour, choice_dict) ==
    IF ind_uav >= nuavs THEN choice_dict
    ELSE IF residual[ind_uav + 1] > 0 /\ ind_tour < Len(UavTours(ind_uav))
    THEN ChoiceDict(strat, visited, residual, ind_uav, ind_tour + 1,
            DictSet(choice_dict,
                    Quality(strat, UavTours(ind_uav)[ind_tour + 1],
                            residual[ind_uav + 1], visited),
                    <<ind_uav, ind_tour>>))
    ELSE ChoiceDict(strat, visited, residual, ind_uav + 1, 0, choice_dict)

\* a faulty maximum: the least key of choice_dict
BestValue_least(choice_dict) ==
    CHOOSE q \in Range(DictKeys(choice_dict)) :
        \A r \in Range(DictKeys(choice_dict)) : q <= r

\* max(choice_dict, key=int)
BestValue(choice_dict) ==
    CHOOSE q \in Range(DictKeys(choice_dict)) :
        \A r \in Range(DictKeys(choice_dict)) : r <= q

\* local_optimal_choice: the (ind_uav, ind_tour) pairs the double loop visits
Candidates(residual) ==
    UNION {{<<u, t>> : t \in 0..(Len(UavTours(u)) - 1)} :
              u \in {v \in 0..(nuavs - 1) : residual[v + 1] > 0}}

\* a faulty choice: of the candidates with the best quality the first one
\* met by the double loop is returned
local_optimal_choice_first(strat, visited, residual) ==
    LET cands == Candidates(residual)
        q(c) == Quality(strat, UavTours(c[1])[c[2] + 1], residual[c[1] + 1], visited)
        best == {c \in cands : \A e \in cands : q(e) <= q(c)}
    IN  CHOOSE c \in best : \A e \in best : c[1] < e[1] \/ (c[1] = e[1] /\ c[2] <= e[2])

\* local_optimal_choice(visited_points, residual_ntours_to_assign)
local_optimal_choice(strat, visited, residual) ==
    LET choice_dict == ChoiceDict(strat, visited, residual, 0, 0, <<>>)
    IN  DictGet(choice_dict, BestValue(choice_dict))

(***************************************************************************)
(* Hand-made solutions: a caller fills a builder, freezes it and prunes    *)
(* the frozen solution.                                                    *)
(***************************************************************************)
DroneIds == 0..(MaxUavs - 1)

PlannerIdle ==
    /\ uavs_tours = <<>>
    /\ max_rounds = 0
    /\ strategy = "total"
    /\ residual_ntours_to_assign = <<>>
    /\ tour_to_assign = 0
    /\ visited_points = {}
    /\ choice = <<>>
    /\ call_visited_points = {}
    /\ call_residual = <<>>
    /\ iterations = 0
    /\ selections = <<>>

planner_vars == <<uavs_tours, max_rounds, strategy, residual_ntours_to_assign,
                  tour_to_assign, visited_points, choice, call_visited_points,
                  call_residual, iterations, selections>>

InitSolution ==
    /\ pc = "building"
    /\ PlannerIdle
    /\ mrs_builder = EmptyBuilder
    /\ mrs = NoSolution
    /\ pruned = NotPruned
    /\ pruned_again = NotPruned
    /\ TrajIdle
    /\ EntityIdle

\* no planner is running and no solution is under construction
PlanIdle ==
    /\ PlannerIdle
    /\ mrs_builder = EmptyBuilder
    /\ mrs = NoSolution
    /\ pruned = NotPruned
    /\ pruned_again = NotPruned

\* builder.add_drone(drone)
BuilderAddDrone ==
    /\ pc = "building"
    /\ \E drone \in DroneIds :
          /\ ~DictHas(mrs_builder, drone)
          /\ mrs_builder' = add_drone(mrs_builder, drone)
    /\ UNCHANGED <<pc, planner_vars, mrs, pruned>>
    /\ UNCHANGED <<pruned_again, traj_vars, entity_vars>>

\* builder.append_tour(drone, tour)
BuilderAppendTour ==
    /\ pc = "building"
    /\ NTours(mrs_builder) < MaxAppend
    /\ \E drone \in DroneIds, depot \in DepotIndexes, ts \in TargetLists :
          /\ DictHas(mrs_builder, drone)
          /\ mrs_builder' = append_tour(mrs_builder, drone, RandomTour(depot, ts))
    /\ UNCHANGED <<pc, planner_vars, mrs, pruned>>
    /\ UNCHANGED <<pruned_again, traj_vars, entity_vars>>

\* builder.build()
BuilderBuild ==
    /\ pc = "building"
    /\ mrs' = MultiRoundSolution(mrs_builder)
    /\ pc' = "frozen"
    /\ UNCHANGED <<planner_vars, mrs_builder, pruned>>
    /\ UNCHANGED <<pruned_again, traj_vars, entity_vars>>

\* utility.pruning_multiroundsolution(mrs)
Prune ==
    /\ pc = "frozen"
    /\ pruned' = pruning_multiroundsolution(mrs, mrs_builder)
    /\ pc' = "pruned"
    /\ UNCHANGED <<planner_vars, mrs_builder, mrs>>
    /\ UNCHANGED <<pruned_again, traj_vars, entity_vars>>

\* utility.pruning_multiroundsolution(pruned): the pruned solution is pruned
PruneAgain ==
    /\ pc = "pruned"
    /\ pruned_again' = pruning_multiroundsolution(pruned.sol, pruned.drone_and_tours)
    /\ pc' = "pruned_again"
    /\ UNCHANGED <<planner_vars, mrs_builder, mrs, pruned, traj_vars, entity_vars>>

NextSolution == BuilderAddDrone \/ BuilderAppendTour \/ BuilderBuild \/ Prune \/ PruneAgain

SpecSolution == InitSolution /\ [][NextSolution]_vars

(***************************************************************************)
(* A plan of two long tours: one drone was added to a builder and two      *)
(* tours of up to MaxLongTourLen targets were appended; the caller freezes *)
(* the builder and prunes the solution.                                    *)
(***************************************************************************)
LongTargetLists == SeqsOf(TargetIndexes, 1, MaxLongTourLen)

InitLongPlan ==
    /\ pc = "building"
    /\ PlannerIdle
    /\ \E depot \in DepotIndexes, first \in LongTargetLists, second \in LongTargetLists :
          mrs_builder = append_tour(append_tour(add_drone(EmptyBuilder, 0),
                                                0, RandomTour(depot, first)),
                                    0, RandomTour(depot, second))
    /\ mrs = NoSolution
    /\ pruned = NotPruned
    /\ pruned_again = NotPruned
    /\ TrajIdle
    /\ EntityIdle

NextLongPlan == BuilderBuild \/ Prune

SpecLongPlan == InitLongPlan /\ [][NextLongPlan]_vars

(***************************************************************************)
(* A builder that is used after build(): drone_and_tours and drones of the *)
(* solution are the builder's own dict and set (trajenties.py lines        *)
(* 395-396), so mrs_builder is the solution's drone_and_tours as well,     *)
(* while mrs holds the fields the solution derived when it was built.      *)
(***************************************************************************)
InitAfterBuild ==
    /\ pc = "building"
    /\ PlannerIdle
    /\ \E depot \in DepotIndexes, ts \in TargetLists :
          mrs_builder = append_tour(add_drone(EmptyBuilder, 0), 0, RandomTour(depot, ts))
    /\ mrs = NoSolution
    /\ pruned = NotPruned
    /\ pruned_again = NotPruned
    /\ TrajIdle
    /\ EntityIdle

\* builder.add_drone(drone), after builder.build()
AddDroneAfterBuild ==
    /\ pc = "frozen"
    /\ \E drone \in DroneIds :
          /\ ~DictHas(mrs_builder, drone)
          /\ mrs_builder' = add_drone(mrs_builder, drone)
    /\ UNCHANGED <<pc, planner_vars, mrs, pruned, pruned_again, traj_vars, entity_vars>>

\* builder.append_tour(drone, tour), after builder.build()
AppendTourAfterBuild ==
    /\ pc = "frozen"
    /\ NTours(mrs_builder) < MaxAppend
    /\ \E drone \in DroneIds, depot \in DepotIndexes, ts \in TargetLists :
          /\ DictHas(mrs_builder, drone)
          /\ mrs_builder' = append_tour(mrs_builder, drone, RandomTour(depot, ts))
    /\ UNCHANGED <<pc, planner_vars, mrs, pruned, pruned_again, traj_vars, entity_vars>>

\* builder.add_drone_with_tours(drone, [tour]), after builder.build()
AddDroneWithToursAfterBuild ==
    /\ pc = "frozen"
    /\ NTours(mrs_builder) < MaxAppend
    /\ \E drone \in DroneIds, depot \in DepotIndexes, ts \in TargetLists :
          /\ ~DictHas(mrs_builder, drone)
          /\ mrs_builder' = add_drone_with_tours(mrs_builder, drone, <<RandomTour(depot, ts)>>)
    /\ UNCHANGED <<pc, planner_vars, mrs, pruned, pruned_again, traj_vars, entity_vars>>

NextAfterBuild ==
    BuilderBuild \/ AddDroneAfterBuild \/ AppendTourAfterBuild \/ AddDroneWithToursAfterBuild

SpecAfterBuild == InitAfterBuild /\ [][NextAfterBuild]_vars

(***************************************************************************)
(* The planner: construction, then solution().                             *)
(***************************************************************************)
\* the depot a drone leaves from
DepotOfUav(i) == n_targets + (i % n_depots)

\* the shapes of the catalogs given to a planner: per drone, 1..MaxCatalog
\* lists of targets, at most MaxCatalogTotal in all
CatalogShapes(n) == [1..n -> SeqsOf(TargetLists, 1, MaxCatalog)]

\* number of tours of a catalog
CatalogSize(c) == LET RECURSIVE Cnt(_)
                      Cnt(u) == IF u > Len(c) THEN 0 ELSE Len(c[u]) + Cnt(u + 1)
                  IN  Cnt(1)

\* the catalog of a shape: every tour of drone u leaves from the drone's depot
CatalogOf(shape) ==
    [u \in 1..Len(shape) |->
        [k \in 1..Len(shape[u]) |-> RandomTour(DepotOfUav(u - 1), shape[u][k])]]

InitPlanner ==
    /\ pc = "ready"
    /\ \E n \in 1..MaxUavs : \E shape \in CatalogShapes(n) :
          /\ CatalogSize(shape) <= MaxCatalogTotal
          /\ check_depots(CatalogOf(shape))
          /\ uavs_tours = CatalogOf(shape)
    /\ max_rounds \in 0..MaxRounds
    /\ strategy \in {"total", "cumulative"}
    /\ residual_ntours_to_assign = <<>>
    /\ tour_to_assign = 0
    /\ visited_points = {}
    /\ choice = <<>>
    /\ call_visited_points = {}
    /\ call_residual = <<>>
    /\ iterations = 0
    /\ selections = <<>>
    /\ mrs_builder = EmptyBuilder
    /\ mrs = NoSolution
    /\ pruned = NotPruned
    /\ pruned_again = NotPruned
    /\ TrajIdle
    /\ EntityIdle

\* solution(): lines 124-131
SolutionStart ==
    /\ pc = "ready"
    /\ mrs_builder' = [i \in 1..nuavs |-> <<i - 1, <<>>>>]
    /\ residual_ntours_to_assign' = [i \in 1..nuavs |-> max_rounds]
    /\ tour_to_assign' = max_rounds * nuavs
    /\ visited_points' = {}
    /\ pc' = "greedy"
    /\ UNCHANGED <<uavs_tours, max_rounds, strategy, choice, call_visited_points,
                   call_residual, iterations, selections, mrs, pruned>>
    /\ UNCHANGED <<pruned_again, traj_vars, entity_vars>>

\* solution(): one iteration of the while loop, lines 133-139
GreedyStep ==
    /\ pc = "greedy"
    /\ ~greedy_stop_condition(visited_points, tour_to_assign)
    /\ LET c == local_optimal_choice(strategy, visited_points, residual_ntours_to_assign)
           itd_uav == c[1]
           ind_tour == c[2]
           opt_tour == UavTours(itd_uav)[ind_tour + 1]
       IN  /\ choice' = c
           /\ call_visited_points' = visited_points
           /\ call_residual' = residual_ntours_to_assign
           /\ residual_ntours_to_assign' =
                 [residual_ntours_to_assign EXCEPT ![itd_uav + 1] = @ - 1]
           /\ tour_to_assign' = tour_to_assign - 1
           /\ visited_points' = visited_points \cup Range(opt_tour.targets_indexes)
           /\ mrs_builder' = append_tour(mrs_builder, itd_uav, opt_tour)
    /\ iterations' = iterations + 1
    /\ selections' = Append(selections, choice')
    /\ UNCHANGED <<pc, uavs_tours, max_rounds, strategy, mrs, pruned>>
    /\ UNCHANGED <<pruned_again, traj_vars, entity_vars>>

\* solution(): the loop ends, line 141: build, prune, return
SolutionReturn ==
    /\ pc = "greedy"
    /\ greedy_stop_condition(visited_points, tour_to_assign)
    /\ mrs' = MultiRoundSolution(mrs_builder)
    /\ pruned' = pruning_multiroundsolution(MultiRoundSolution(mrs_builder), mrs_builder)
    /\ pc' = "done"
    /\ UNCHANGED <<planner_vars, mrs_builder>>
    /\ UNCHANGED <<pruned_again, traj_vars, entity_vars>>

NextPlanner == SolutionStart \/ GreedyStep \/ SolutionReturn

SpecPlanner == InitPlanner /\ [][NextPlanner]_vars

(***************************************************************************)
(* The planner given any catalog: every tour leaves from a depot of its    *)
(* own, so the tours of one drone may name different depots.               *)
(***************************************************************************)
\* the shapes of such catalogs: per drone, 1..MaxCatalog pairs of a depot
\* and a list of targets
MixedShapes(n) ==
    [1..n -> SeqsOf(DepotIndexes \X SeqsOf(TargetIndexes, 0, MaxMixedTourLen), 1, MaxCatalog)]

\* the catalog of such a shape
MixedCatalogOf(shape) ==
    [u \in 1..Len(shape) |->
        [k \in 1..Len(shape[u]) |-> RandomTour(shape[u][k][1], shape[u][k][2])]]

\* the call AbstractGreedyAndPrune.__init__(aoi, uavs_tours, max_rounds) begins
InitConstruct ==
    /\ pc = "constructing"
    /\ \E n \in 1..MaxUavs : \E shape \in MixedShapes(n) :
          /\ CatalogSize(shape) <= MaxCatalogTotal
          /\ uavs_tours = MixedCatalogOf(shape)
    /\ max_rounds \in 0..MaxRounds
    /\ strategy \in {"total", "cumulative"}
    /\ residual_ntours_to_assign = <<>>
    /\ tour_to_assign = 0
    /\ visited_points = {}
    /\ choice = <<>>
    /\ call_visited_points = {}
    /\ call_residual = <<>>
    /\ iterations = 0
    /\ selections = <<>>
    /\ mrs_builder = EmptyBuilder
    /\ mrs = NoSolution
    /\ pruned = NotPruned
    /\ pruned_again = NotPruned
    /\ TrajIdle
    /\ EntityIdle

\* AbstractGreedyAndPrune.__init__: the assertion of __check_depots
PlannerConstruct ==
    /\ pc = "constructing"
    /\ pc' = IF check_depots(uavs_tours) THEN "ready" ELSE "init_failed"
    /\ UNCHANGED <<plan_vars, traj_vars, entity_vars>>

NextConstruct == PlannerConstruct \/ SolutionStart \/ GreedyStep \/ SolutionReturn

SpecConstruct == InitConstruct /\ [][NextConstruct]_vars

(***************************************************************************)
(* The AoI graph: edge weights are distances, node weights hovering times. *)
(* The points lie on one line, so every distance is a whole number and     *)
(* the float arithmetic of the source is exact on them.                    *)
(***************************************************************************)
\* math.sqrt of a perfect square
Sqrt(x) == CHOOSE r \in 0..x : r * r = x

\* trajenties.euclidean_distance(point1, point2)
euclidean_distance(point1, point2) ==
    Sqrt((point2[1] - point1[1]) * (point2[1] - point1[1])
         + (point2[2] - point1[2]) * (point2[2] - point1[2]))

\* aoi.graph.edges[i, j]["weight"]
AoIEdgeWeight(i, j) == euclidean_distance(NodePos(i), NodePos(j))

\* aoi.graph.nodes[i]["weight"]: the hovering time of a target, 0 for a depot
AoINodeWeight(i) == IF i < n_targets THEN node_hovering_time ELSE 0

\* Tour.len_tour
len_tour(tour) ==
    LET RECURSIVE Tlen(_)
        Tlen(k) == IF k > Len(tour.edges_w_indexes) THEN 0
                   ELSE AoIEdgeWeight(tour.edges_w_indexes[k][1], tour.edges_w_indexes[k][2])
                        + Tlen(k + 1)
    IN  Tlen(1)

\* aoi.graph.edges[i, j] exists: __build_graph joins every two different nodes
has_edge(i, j) == i # j

\* Tour.len_tour raises KeyError: an edge of the tour is not in the graph
len_tour_raises(tour) ==
    \E k \in 1..Len(tour.edges_w_indexes) :
        ~has_edge(tour.edges_w_indexes[k][1], tour.edges_w_indexes[k][2])

\* Tour.hovering_time_tour
hovering_time_tour(tour) ==
    LET RECURSIVE Hlen(_)
        Hlen(k) == IF k > Len(tour.edges_w_indexes) THEN 0
                   ELSE AoINodeWeight(tour.edges_w_indexes[k][2]) + Hlen(k + 1)
    IN  Hlen(1)

\* tour.time_tour(speed) < bound, both sides multiplied by speed:
\* len_tour / speed + hovering_time_tour < bound
time_tour_less(tour, speed, bound) ==
    len_tour(tour) + hovering_time_tour(tour) * speed < bound * speed

(***************************************************************************)
(* Christofides.  A graph is [nodes: set of node indexes, w: weight of     *)
(* every edge <<a, b>>, a < b]; the edges are the pairs w is defined on.   *)
(* The calls into the graph library                                        *)
(* (spanning tree, matching, Eulerian circuit) are modelled by what they   *)
(* promise: every result with the promised property is possible.           *)
(***************************************************************************)
EdgesOf(S) == {e \in S \X S : e[1] < e[2]}

Edge(a, b) == IF a < b THEN <<a, b>> ELSE <<b, a>>

\* graph.edges
GraphEdges(g) == DOMAIN g.w

\* graph.edges[a, b]["weight"]
Weight(g, a, b) == g.w[Edge(a, b)]

\* total weight of a set of edges
RECURSIVE SumWeights(_, _)
SumWeights(g, E) ==
    IF E = {} THEN 0
    ELSE LET e == CHOOSE e \in E : TRUE
         IN  Weight(g, e[1], e[2]) + SumWeights(g, E \ {e})

\* the nodes joined to the nodes of seen by the edges of T
RECURSIVE Reach(_, _)
Reach(T, seen) ==
    LET more == {e[1] : e \in {f \in T : f[2] \in seen}} \cup
                {e[2] : e \in {f \in T : f[1] \in seen}}
    IN  IF more \subseteq seen THEN seen ELSE Reach(T, seen \cup more)

IsSpanningTree(g, T) ==
    /\ Cardinality(T) = Cardinality(g.nodes) - 1
    /\ Reach(T, {CHOOSE v \in g.nodes : TRUE}) = g.nodes

\* nx.minimum_spanning_tree(graph): the trees it can return
MinimumSpanningTrees(g) ==
    LET trees == {T \in SUBSET GraphEdges(g) : IsSpanningTree(g, T)}
        weights == {SumWeights(g, T) : T \in trees}
        least == CHOOSE x \in weights : \A y \in weights : x <= y
    IN  {T \in trees : SumWeights(g, T) = least}

\* mst.degree(i)
Degree(T, i) == Cardinality({e \in T : e[1] = i \/ e[2] = i})

\* Christofides.odd_nodes(mst)
odd_nodes(T, nodes) == {i \in nodes : Degree(T, i) % 2 # 0}

\* every matching of the complete graph on S, perfect or not
RECURSIVE Matchings(_)
Matchings(S) ==
    IF S = {} THEN {{}}
    ELSE LET a == CHOOSE x \in S : \A y \in S : x <= y
             rest == S \ {a}
         IN  Matchings(rest) \cup
             UNION {{m \cup {<<a, b>>} : m \in Matchings(rest \ {b})} : b \in rest}

RECURSIVE Gcd(_, _)
Gcd(a, b) == IF b = 0 THEN a ELSE Gcd(b, a % b)

\* least common multiple of a set of positive numbers
RECURSIVE Lcm(_)
Lcm(S) ==
    IF S = {} THEN 1
    ELSE LET x == CHOOSE x \in S : TRUE
             l == Lcm(S \ {x})
         IN  (x * l) \div Gcd(x, l)

\* graph.subgraph(odd_nodes).edges
OddGraphEdges(g, odd) == EdgesOf(odd) \cap GraphEdges(g)

\* Christofides.min_weight_matching(odd_graph): every weight w becomes 1.0 / w
\* and nx.max_weight_matching(temp_graph) returns a matching of largest
\* total weight.  The reciprocals are held as scale / w, scale the least
\* common multiple of the weights, so the sums are compared exactly.
min_weight_matching(g, odd) ==
    LET scale == Lcm({Weight(g, e[1], e[2]) : e \in OddGraphEdges(g, odd)})
        RECURSIVE value(_)
        value(m) == IF m = {} THEN 0
                    ELSE LET e == CHOOSE e \in m : TRUE
                         IN  (scale \div Weight(g, e[1], e[2])) + value(m \ {e})
        all == {m \in Matchings(odd) : m \subseteq OddGraphEdges(g, odd)}
    IN  {m \in all : \A o \in all : value(o) <= value(m)}

\* eu_graph: how many times each pair of nodes is joined (mst + perfect match)
EuGraph(nodes, T, M) ==
    [e \in EdgesOf(nodes) |-> (IF e \in T THEN 1 ELSE 0) + (IF e \in M THEN 1 ELSE 0)]

\* eu_graph.degree(v)
EuDegree(eu, v) ==
    Cardinality({e \in DOMAIN eu : (e[1] = v \/ e[2] = v) /\ eu[e] >= 1}) +
    Cardinality({e \in DOMAIN eu : (e[1] = v \/ e[2] = v) /\ eu[e] >= 2})

\* the nodes of eu_graph: the ends of its edges
EuNodes(eu) == UNION {{e[1], e[2]} : e \in {f \in DOMAIN eu : eu[f] >= 1}}

\* nx.is_eulerian(eu_graph): every degree even, and connected
is_eulerian(eu) ==
    /\ \A v \in EuNodes(eu) : EuDegree(eu, v) % 2 = 0
    /\ EuNodes(eu) # {}
    /\ Reach({f \in DOMAIN eu : eu[f] >= 1}, {CHOOSE v \in EuNodes(eu) : TRUE}) = EuNodes(eu)

\* nx.eulerian_circuit(eu_graph, source, keys=False): the circuits it can
\* return, as lists of edges (u, v); here the walks from v that use every
\* remaining edge once and end in source
RECURSIVE eulerian_circuit(_, _, _)
eulerian_circuit(eu, v, source) ==
    IF \A e \in DOMAIN eu : eu[e] = 0
    THEN IF v = source THEN {<<>>} ELSE {}
    ELSE UNION {{<<<<v, u>>>> \o c :
                    c \in eulerian_circuit([eu EXCEPT ![Edge(v, u)] = @ - 1], u, source)} :
                u \in {x \in EuNodes(eu) : x # v /\ eu[Edge(v, x)] >= 1}}

\* a faulty shortcut: the nodes met again are kept
shorted_tour_keepAll(circuit) ==
    build_tour_from_ordered_nodes([k \in 1..Len(circuit) |-> circuit[k][1]])

\* Christofides.shorted_tour(eu_tour): the loop, from edge k on
RECURSIVE OrderedUniqueNodes(_, _, _)
OrderedUniqueNodes(circuit, k, ordered_unique_nodes_in_tour) ==
    IF k > Len(circuit) THEN ordered_unique_nodes_in_tour
    ELSE OrderedUniqueNodes(circuit, k + 1,
            IF circuit[k][1] \in Range(ordered_unique_nodes_in_tour)
            THEN ordered_unique_nodes_in_tour
            ELSE Append(ordered_unique_nodes_in_tour, circuit[k][1]))

\* Christofides.shorted_tour(eu_tour)
shorted_tour(circuit) ==
    build_tour_from_ordered_nodes(OrderedUniqueNodes(circuit, 1, <<>>))

\* Christofides.compute, line 109
TspMst ==
    /\ pc = "tsp_ready"
    /\ \E T \in MinimumSpanningTrees(graph) : mst' = T
    /\ pc' = "tsp_matching"
    /\ UNCHANGED <<entity_vars, plan_vars, graph, depot_index, perfect_match, eu_tour, tsp_tour, drone_vars>>

\* Christofides.compute, lines 112-118
TspMatch ==
    /\ pc = "tsp_matching"
    /\ \E M \in min_weight_matching(graph, odd_nodes(mst, graph.nodes)) : perfect_match' = M
    /\ pc' = "tsp_euler"
    /\ UNCHANGED <<entity_vars, plan_vars, graph, depot_index, mst, eu_tour, tsp_tour, drone_vars>>

\* Christofides.compute, lines 121-135
TspEuler ==
    /\ pc = "tsp_euler"
    /\ LET eu_graph == EuGraph(graph.nodes, mst, perfect_match)
       IN  IF is_eulerian(eu_graph)
           THEN \E c \in eulerian_circuit(eu_graph, depot_index, depot_index) :
                   /\ eu_tour' = c
                   /\ tsp_tour' = shorted_tour(c)
                   /\ pc' = "tsp_done"
           ELSE /\ pc' = "assert_failed"
                /\ UNCHANGED <<eu_tour, tsp_tour>>
    /\ UNCHANGED <<entity_vars, plan_vars, graph, depot_index, mst, perfect_match, drone_vars>>

\* the complete graph on 0..n-1 with the weights of the matrix m
GraphOfMatrix(m) ==
    [nodes |-> 0..(Len(m) - 1),
     w |-> [e \in EdgesOf(0..(Len(m) - 1)) |-> m[e[1] + 1][e[2] + 1]]]

\* a graph on six nodes whose weights are distances (the triangle
\* inequality holds), with one minimum spanning tree
SixNodeGraph ==
    GraphOfMatrix(<< << 0, 23, 14, 14, 23,  9>>,
                     <<23,  0, 37, 14, 23, 15>>,
                     <<14, 37,  0, 24, 15, 23>>,
                     <<14, 14, 24,  0,  9, 23>>,
                     <<23, 23, 15,  9,  0, 32>>,
                     << 9, 15, 23, 23, 32,  0>> >>)

\* a direct call Christofides.compute(graph, depot_index) on a complete
\* graph with positive weights
InitTsp ==
    /\ pc = "tsp_ready"
    /\ PlanIdle
    /\ EntityIdle
    /\ \/ \E n \in 2..MaxNodes : \E w \in [EdgesOf(0..(n - 1)) -> 1..MaxWeight] :
             graph = [nodes |-> 0..(n - 1), w |-> w]
       \/ graph = SixNodeGraph
    /\ depot_index \in graph.nodes
    /\ mst = {}
    /\ perfect_match = {}
    /\ eu_tour = <<>>
    /\ tsp_tour = <<>>
    /\ DroneIdle

NextTsp == TspMst \/ TspMatch \/ TspEuler

SpecTsp == InitTsp /\ [][NextTsp]_vars

(***************************************************************************)
(* Christofides.compute on graphs that need not be complete, as the graph  *)
(* of an AoI built with viable_paths is: the edges are the viable paths.   *)
(* The graphs are connected.                                               *)
(***************************************************************************)
\* the graph is connected
IsConnected(g) == Reach(GraphEdges(g), {CHOOSE v \in g.nodes : TRUE}) = g.nodes

InitViable ==
    /\ pc = "tsp_ready"
    /\ PlanIdle
    /\ EntityIdle
    /\ \E n \in 2..MaxNodes : \E E \in SUBSET EdgesOf(0..(n - 1)) :
          \E w \in [E -> 1..MaxViableWeight] :
             /\ graph = [nodes |-> 0..(n - 1), w |-> w]
             /\ IsConnected(graph)
    /\ depot_index \in graph.nodes
    /\ mst = {}
    /\ perfect_match = {}
    /\ eu_tour = <<>>
    /\ tsp_tour = <<>>
    /\ DroneIdle

NextViable == TspMst \/ TspMatch \/ TspEuler

SpecViable == InitViable /\ [][NextViable]_vars

(***************************************************************************)
(* DroneTrajGeneration.compute_trajectories(drone, depot_coords).          *)
(***************************************************************************)
\* a faulty test: a tour that takes the whole autonomy passes
within_autonomy_orEqual(tour, d) ==
    len_tour(tour) + hovering_time_tour(tour) * d.speed <= d.autonomy * d.speed

\* tour.time_tour(drone.speed) < drone.autonomy, lines 74 and 83
within_autonomy(tour, d) == time_tour_less(tour, d.speed, d.autonomy)

\* a faulty loop: a grown sub-tour that takes the whole autonomy is emitted
\* and the loop goes on
RECURSIVE SubtourLoop_orEqual(_, _, _, _, _)
SubtourLoop_orEqual(nodes, i, current_subtour, d, depot) ==
    IF i >= Len(nodes) THEN <<>>
    ELSE LET longer == Append(current_subtour, <<nodes[i], nodes[i + 1]>>)
             return_edge == <<nodes[i + 1], depot>>
             tour == from_graph_indexes(Append(longer, return_edge))
         IN  IF within_autonomy_orEqual(tour, d)
             THEN <<tour>> \o SubtourLoop_orEqual(nodes, i + 1, longer, d, depot)
             ELSE <<>>

\* __compute_subtours: the loop of lines 79-86, from i on (0-based)
RECURSIVE SubtourLoop(_, _, _, _, _)
SubtourLoop(nodes, i, current_subtour, d, depot) ==
    IF i >= Len(nodes) THEN <<>>
    ELSE LET longer == Append(current_subtour, <<nodes[i], nodes[i + 1]>>)
             return_edge == <<nodes[i + 1], depot>>
             tour == from_graph_indexes(Append(longer, return_edge))
         IN  IF within_autonomy(tour, d)
             THEN <<tour>> \o SubtourLoop(nodes, i + 1, longer, d, depot)
             ELSE <<>>

\* __compute_subtours(tsp_node_index, tsp_nodes, drone, depot_index):
\* failed when the assertion of line 74 fails, else the tours returned
compute_subtours(index, nodes, d, depot) ==
    LET current_subtour == <<<<depot, nodes[index + 1]>>>>
        return_edge == <<nodes[index + 1], depot>>
        tour == from_graph_indexes(Append(current_subtour, return_edge))
    IN  IF within_autonomy(tour, d)
        THEN [failed |-> FALSE,
              out_tours |-> <<tour>> \o SubtourLoop(nodes, index + 1, current_subtour, d, depot)]
        ELSE [failed |-> TRUE, out_tours |-> <<>>]

\* __remove_nodes: the nodes that stay in the graph
remove_nodes(d, depot) ==
    {n \in TargetIndexes \cup DepotIndexes :
        /\ n \notin (DepotIndexes \ {depot})
        /\ \/ n = depot
           \/ ~(AoINodeWeight(n) * d.speed + 2 * AoIEdgeWeight(depot, n)
                   > d.autonomy * d.speed)}

\* compute_trajectories, lines 40-45
RemoveNodes ==
    /\ pc = "traj_ready"
    /\ LET kept == remove_nodes(traj_drone, depot_index)
       IN  /\ graph' = [nodes |-> kept,
                        w |-> [e \in EdgesOf(kept) |-> AoIEdgeWeight(e[1], e[2])]]
           /\ pc' = IF Cardinality(kept) > 1 THEN "tsp_ready" ELSE "assert_failed"
    /\ UNCHANGED <<entity_vars, plan_vars, depot_index, mst, perfect_match, eu_tour, tsp_tour, drone_vars>>

\* compute_trajectories, lines 49-53
TrajTspNodes ==
    /\ pc = "tsp_done"
    /\ tsp_nodes' = [k \in 1..Len(tsp_tour) |-> tsp_tour[k][1]]
    /\ pc' = IF Len(tsp_tour) = Cardinality(graph.nodes) THEN "subtours" ELSE "assert_failed"
    /\ tsp_node_index' = 1
    /\ output_tours' = <<>>
    /\ UNCHANGED <<entity_vars, plan_vars, tsp_vars, node_hovering_time, traj_drone>>

\* compute_trajectories, lines 54-55: one iteration
ComputeSubtours ==
    /\ pc = "subtours"
    /\ tsp_node_index < Len(tsp_nodes)
    /\ LET r == compute_subtours(tsp_node_index, tsp_nodes, traj_drone, depot_index)
       IN  IF r.failed
           THEN /\ pc' = "assert_failed"
                /\ UNCHANGED <<output_tours, tsp_node_index>>
           ELSE /\ output_tours' = output_tours \o r.out_tours
                /\ tsp_node_index' = tsp_node_index + 1
                /\ pc' = pc
    /\ UNCHANGED <<entity_vars, plan_vars, tsp_vars, node_hovering_time, traj_drone, tsp_nodes>>

\* compute_trajectories, line 57
TrajReturn ==
    /\ pc = "subtours"
    /\ tsp_node_index >= Len(tsp_nodes)
    /\ pc' = "traj_done"
    /\ UNCHANGED <<entity_vars, plan_vars, tsp_vars, drone_vars>>

InitTraj ==
    /\ pc = "traj_ready"
    /\ PlanIdle
    /\ EntityIdle
    /\ node_hovering_time \in 0..MaxHover
    /\ \E speed \in 1..MaxSpeed, autonomy \in 0..MaxAutonomy :
          traj_drone = [speed |-> speed, autonomy |-> autonomy]
    /\ depot_index \in DepotIndexes
    /\ graph = [nodes |-> {}, w |-> <<>>]
    /\ mst = {}
    /\ perfect_match = {}
    /\ eu_tour = <<>>
    /\ tsp_tour = <<>>
    /\ tsp_nodes = <<>>
    /\ tsp_node_index = 0
    /\ output_tours = <<>>

NextTraj ==
    RemoveNodes \/ TspMst \/ TspMatch \/ TspEuler \/ TrajTspNodes \/ ComputeSubtours \/ TrajReturn

SpecTraj == InitTraj /\ [][NextTraj]_vars

(***************************************************************************)
(* The constructors AoI.__init__ and Tour.__init__, called on any          *)
(* arguments.                                                              *)
(***************************************************************************)
\* the coordinates a caller draws the depots and the targets of an AoI from
Points == {<<i, 0>> : i \in 1..NPoints}

\* AoI.__init__(depots, target_points, ...): the AoI constructed, or the
\* error raised.  node_pos lists graph.nodes[i]["pos"] for i = 0, 1, ...
AoI(depots_arg, target_points_arg) ==
    IF Cardinality(Range(target_points_arg)) # Len(target_points_arg)
    THEN [raised |-> "AssertionError"]
    ELSE IF Cardinality(Range(depots_arg)) # Len(depots_arg)
    THEN [raised |-> "AssertionError"]
    ELSE [raised |-> "nothing",
          depots |-> depots_arg,
          target_points |-> target_points_arg,
          n_depots |-> Len(depots_arg),
          n_targets |-> Len(target_points_arg),
          node_pos |-> target_points_arg \o depots_arg]

InitAoI ==
    /\ pc = "aoi_call"
    /\ PlanIdle
    /\ TrajIdle
    /\ \E d \in SeqsOf(Points, 0, MaxAoIList), t \in SeqsOf(Points, 0, MaxAoIList) :
          aoi_args = [depots |-> d, target_points |-> t]
    /\ aoi_obj = "none"
    /\ tour_args = <<>>
    /\ tour_obj = "none"

\* AoI(depots, target_points, width, height)
AoIInit ==
    /\ pc = "aoi_call"
    /\ LET a == AoI(aoi_args.depots, aoi_args.target_points)
       IN  IF a.raised = "AssertionError"
           THEN pc' = "aoi_rejected" /\ UNCHANGED aoi_obj
           ELSE pc' = "aoi_built" /\ aoi_obj' = a
    /\ UNCHANGED <<plan_vars, traj_vars, aoi_args, tour_args, tour_obj>>

NextAoI == AoIInit

SpecAoI == InitAoI /\ [][NextAoI]_vars

\* every node of the AoI of the model: the targets, then the depots
NodeIndexes == TargetIndexes \cup DepotIndexes

InitTour ==
    /\ pc = "tour_call"
    /\ PlanIdle
    /\ TrajIdle
    /\ aoi_args = <<>>
    /\ aoi_obj = "none"
    /\ \E nodes \in SeqsOf(NodeIndexes, 1, MaxTourNodes) :
          tour_args = build_tour_from_ordered_nodes([i \in 1..Len(nodes) |-> NodePos(nodes[i])])
    /\ tour_obj = "none"

\* Tour.from_coordinates(aoi, edges_w_coords)
TourInit ==
    /\ pc = "tour_call"
    /\ tour_obj' = Tour(tour_args)
    /\ pc' = "tour_built"
    /\ UNCHANGED <<plan_vars, traj_vars, aoi_args, aoi_obj, tour_args>>

NextTour == TourInit

SpecTour == InitTour /\ [][NextTour]_vars

(***************************************************************************)
(* Properties of the pruning pass.                                         *)
(***************************************************************************)
\* the (drone position, round) slots of a drone_and_tours dict
TourSlots(d) == {s \in (1..Len(d)) \X (1..SolMaxRounds(d)) : s[2] <= Len(d[s[1]][2])}

\* the target indexes of every tour of a dict
PlanTargets(d) == UNION {Range(t.targets_indexes) : t \in ToursOf(d)}

\* how many times target x occurs in the ordered target list of a tour
Occurrences(tour, x) ==
    Cardinality({i \in 1..Len(tour.targets_indexes) : tour.targets_indexes[i] = x})

\* how many times target x occurs in the whole plan
RECURSIVE PlanOccurrences(_, _, _)
PlanOccurrences(d, slots, x) ==
    IF slots = {} THEN 0
    ELSE LET s == CHOOSE s \in slots : TRUE
         IN  Occurrences(d[s[1]][2][s[2]], x) + PlanOccurrences(d, slots \ {s}, x)

\* C1: pruning a frozen solution gives a solution that covers exactly the
\* same set of targets, so coverage_score() is the same before and after.
C1_PruningKeepsCoverage ==
    pc = "pruned" =>
        /\ pruned.sol.covered_graph_targets = mrs.covered_graph_targets
        /\ PlanTargets(pruned.drone_and_tours) = PlanTargets(mrs_builder)
        /\ coverage_score(pruned.sol) = coverage_score(mrs)

\* C1 happens: a pruned solution that lost a whole tour and shortened the
\* plan, while the solution covers at least two targets
C1_Witness ==
    /\ pc = "pruned"
    /\ coverage_score(mrs) >= 2
    /\ NTours(pruned.drone_and_tours) < NTours(mrs_builder)
    /\ NTours(pruned.drone_and_tours) >= 2

\* C2: in the pruned solution the target sets of any two distinct
\* (agent, round) tours are disjoint.
C2_PrunedToursDisjoint ==
    pc = "pruned" =>
        \A s1, s2 \in TourSlots(pruned.drone_and_tours) :
            s1 # s2 =>
                Range(pruned.drone_and_tours[s1[1]][2][s1[2]].targets_indexes) \cap
                Range(pruned.drone_and_tours[s2[1]][2][s2[2]].targets_indexes) = {}

\* C2 happens: two tours of the frozen solution shared a target and both
\* are still present, shortened, in the pruned solution
C2_Witness ==
    /\ pc = "pruned"
    /\ NTours(pruned.drone_and_tours) >= 2
    /\ NTours(pruned.drone_and_tours) = NTours(mrs_builder)
    /\ \E s1, s2 \in TourSlots(mrs_builder) :
          /\ s1 # s2
          /\ Range(mrs_builder[s1[1]][2][s1[2]].targets_indexes) \cap
             Range(mrs_builder[s2[1]][2][s2[2]].targets_indexes) # {}

\* C3: the plan returned by solution() holds no duplicate visit: every
\* target occurs at most once in the whole pruned plan, counting every
\* occurrence inside each tour's ordered target list.
C3_NoDuplicateVisit ==
    pc = "done" =>
        \A x \in TargetIndexes :
            PlanOccurrences(pruned.drone_and_tours, TourSlots(pruned.drone_and_tours), x) <= 1

(***************************************************************************)
(* Properties of the greedy loop.                                          *)
(***************************************************************************)
\* the number of targets of candidate c that are not in visited
NewTargets(c, visited) ==
    Cardinality(Range(UavTours(c[1])[c[2] + 1].targets_indexes) \ visited)

\* candidate a comes before candidate b in the order of the double loop
Before(a, b) == a[1] < b[1] \/ (a[1] = b[1] /\ a[2] < b[2])

\* a greedy iteration is taken by this step
GreedyIteration == pc = "greedy" /\ iterations' = iterations + 1

\* C5: the greedy loop ends after at most max_rounds * nuavs iterations,
\* each iteration assigning exactly one tour: the count never passes the
\* product, and at the product the stop condition holds.
C5_GreedyLoopBounded ==
    /\ iterations <= max_rounds * nuavs
    /\ pc \in {"greedy", "done"} => NTours(mrs_builder) = iterations
    /\ (pc = "greedy" /\ iterations = max_rounds * nuavs) =>
           greedy_stop_condition(visited_points, tour_to_assign)

\* C5 happens: a run that used its whole budget of at least two
\* iterations and returned with reachable targets left unvisited
C5_Witness ==
    /\ pc = "done"
    /\ iterations = max_rounds * nuavs
    /\ iterations >= 2
    /\ reachable_points \ visited_points # {}

\* C6: with the total-coverage strategy every greedy step selects a tour of
\* an agent with residual rounds > 0 whose number of not yet visited targets
\* is the largest among the tours of all agents with residual rounds > 0.
C6_TotalChoiceIsBest ==
    [][(GreedyIteration /\ strategy = "total") =>
          /\ choice' \in Candidates(residual_ntours_to_assign)
          /\ residual_ntours_to_assign[choice'[1] + 1] > 0
          /\ \A c \in Candidates(residual_ntours_to_assign) :
                 NewTargets(c, visited_points) <= NewTargets(choice', visited_points)
          /\ mrs_builder' = append_tour(mrs_builder, choice'[1],
                                        UavTours(choice'[1])[choice'[2] + 1])]_vars

\* C6 happens: a total-coverage step taken with some targets visited, an
\* exhausted agent, and a candidate that scored less than the selected one
C6_Witness ==
    /\ strategy = "total"
    /\ iterations >= 2
    /\ call_visited_points # {}
    /\ \E u \in 1..nuavs : call_residual[u] = 0
    /\ \E c \in Candidates(call_residual) :
          NewTargets(c, call_visited_points) < NewTargets(choice, call_visited_points)

\* C7: with the cumulative-coverage strategy every greedy step selects a
\* tour that maximises (residual rounds of its agent) * (number of its not
\* yet visited targets) over the tours of all agents with residual rounds > 0.
C7_CumulativeChoiceIsBest ==
    [][(GreedyIteration /\ strategy = "cumulative") =>
          /\ choice' \in Candidates(residual_ntours_to_assign)
          /\ \A c \in Candidates(residual_ntours_to_assign) :
                 residual_ntours_to_assign[c[1] + 1] * NewTargets(c, visited_points)
                    <= residual_ntours_to_assign[choice'[1] + 1]
                          * NewTargets(choice', visited_points)
          /\ mrs_builder' = append_tour(mrs_builder, choice'[1],
                                        UavTours(choice'[1])[choice'[2] + 1])]_vars

\* C7 happens: a cumulative-coverage step where another candidate had as
\* many new targets as the selected one but fewer residual rounds
C7_Witness ==
    /\ strategy = "cumulative"
    /\ iterations >= 2
    /\ NewTargets(choice, call_visited_points) > 0
    /\ \E c \in Candidates(call_residual) :
          /\ NewTargets(c, call_visited_points) = NewTargets(choice, call_visited_points)
          /\ call_residual[c[1] + 1] < call_residual[choice[1] + 1]

\* the quality of candidate c as the running strategy computes it
Score(c, visited, residual) ==
    IF strategy = "total" THEN NewTargets(c, visited)
    ELSE residual[c[1] + 1] * NewTargets(c, visited)

\* the candidates with the best quality
BestCandidates(visited, residual) ==
    {c \in Candidates(residual) :
        \A e \in Candidates(residual) : Score(e, visited, residual) <= Score(c, visited, residual)}

\* C8 as stated: among the candidates sharing the best score the first of
\* the enumeration order is selected (lowest agent index, then lowest tour
\* index).
C8_FirstOfTies ==
    [][GreedyIteration =>
          /\ choice' \in BestCandidates(visited_points, residual_ntours_to_assign)
          /\ \A c \in BestCandidates(visited_points, residual_ntours_to_assign) :
                 c = choice' \/ Before(choice', c)]_vars

\* C8: among the candidates sharing the best score the last of the
\* enumeration order is selected: the highest agent index among them, and
\* for that agent the highest tour index (both strategies).
C8_LastOfTies ==
    [][GreedyIteration =>
          /\ choice' \in BestCandidates(visited_points, residual_ntours_to_assign)
          /\ \A c \in BestCandidates(visited_points, residual_ntours_to_assign) :
                 c = choice' \/ Before(c, choice')]_vars

\* C8 happens: a step where three candidates shared the best score, two of
\* them tours of the selected agent
C8_Witness ==
    /\ iterations >= 1
    /\ Cardinality(BestCandidates(call_visited_points, call_residual)) >= 3
    /\ \E c \in BestCandidates(call_visited_points, call_residual) :
          c # choice /\ c[1] = choice[1]
    /\ \E c \in BestCandidates(call_visited_points, call_residual) : c[1] # choice[1]
    /\ Score(choice, call_visited_points, call_residual) > 0

(***************************************************************************)
(* Properties of the trajectory generation.                                *)
(***************************************************************************)
\* C4: every tour returned by compute_trajectories(drone, depot) has a time
\* cost, tour length / drone.speed + total hovering time, strictly less than
\* drone.autonomy (both sides multiplied by the speed)
C4_ToursWithinAutonomy ==
    pc = "traj_done" =>
        \A k \in 1..Len(output_tours) :
            len_tour(output_tours[k]) + hovering_time_tour(output_tours[k]) * traj_drone.speed
                < traj_drone.autonomy * traj_drone.speed

\* tours were returned, a target was out of reach and left out of the graph,
\* the targets hover, and some longer subtour was cut off by the autonomy
C4_Witness ==
    /\ pc = "traj_done"
    /\ node_hovering_time > 0
    /\ Len(tsp_nodes) >= 3
    /\ Len(tsp_nodes) < n_targets + 1
    /\ Len(output_tours) >= 2
    /\ 2 * Len(output_tours) < Len(tsp_nodes) * (Len(tsp_nodes) - 1)

(***************************************************************************)
(* Properties of Christofides.                                             *)
(***************************************************************************)
\* C9: on a complete weighted graph with at least 2 nodes and a start node s,
\* Christofides.compute returns (no assertion fails) a closed edge sequence:
\* its ordered node list starts at s and holds every node of the graph
\* exactly once, every edge starts where the previous one ends, and the last
\* edge returns to s
C9_HamiltonianCycle ==
    /\ pc # "assert_failed"
    /\ pc = "tsp_done" =>
          /\ Len(tsp_tour) = Cardinality(graph.nodes)
          /\ {tsp_tour[k][1] : k \in 1..Len(tsp_tour)} = graph.nodes
          /\ tsp_tour[1][1] = depot_index
          /\ \A k \in 1..(Len(tsp_tour) - 1) : tsp_tour[k][2] = tsp_tour[k + 1][1]
          /\ tsp_tour[Len(tsp_tour)][2] = depot_index

\* a tour was returned for a graph of four nodes or more, from a start node
\* other than node 0, and the Eulerian circuit met some node again
C9_Witness ==
    /\ pc = "tsp_done"
    /\ Cardinality(graph.nodes) >= 4
    /\ depot_index # 0
    /\ Len(eu_tour) > Len(tsp_tour)

\* the weights satisfy the triangle inequality
IsMetric(g) ==
    \A a \in g.nodes, b \in g.nodes, c \in g.nodes :
        (a # b /\ b # c /\ a # c) => Weight(g, a, c) <= Weight(g, a, b) + Weight(g, b, c)

\* total weight of a list of edges
TourLength(g, t) ==
    LET RECURSIVE Tl(_)
        Tl(k) == IF k > Len(t) THEN 0 ELSE Weight(g, t[k][1], t[k][2]) + Tl(k + 1)
    IN  Tl(1)

\* length of the shortest way from node last through every node of rest to start
RECURSIVE ShortestThrough(_, _, _, _)
ShortestThrough(g, last, rest, start) ==
    IF rest = {} THEN Weight(g, last, start)
    ELSE LET ways == {Weight(g, last, x) + ShortestThrough(g, x, rest \ {x}, start) : x \in rest}
         IN  CHOOSE l \in ways : \A o \in ways : l <= o

\* length of an optimal Hamiltonian cycle, by exhaustive search
OptimalTourLength(g) ==
    LET start == CHOOSE v \in g.nodes : TRUE
    IN  ShortestThrough(g, start, g.nodes \ {start}, start)

\* C10: on a complete graph of at most 10 nodes whose positive weights
\* satisfy the triangle inequality, the tour Christofides.compute returns is
\* at most 1.5 times as long as an optimal Hamiltonian cycle
C10_WithinOneAndHalfOfOptimal ==
    (pc = "tsp_done" /\ IsMetric(graph)) =>
        2 * TourLength(graph, tsp_tour) <= 3 * OptimalTourLength(graph)

(***************************************************************************)
(* Further properties of the pruning pass.                                 *)
(***************************************************************************)
\* C11: pruning is idempotent: pruning the pruned solution gives, for every
\* agent, the same ordered list of tours (equal edge-index sequences) as
\* the pruned solution itself
C11_PruningIdempotent ==
    pc = "pruned_again" =>
        /\ DictKeys(pruned_again.drone_and_tours) = DictKeys(pruned.drone_and_tours)
        /\ \A k \in 1..Len(pruned.drone_and_tours) :
              /\ Len(pruned_again.drone_and_tours[k][2]) = Len(pruned.drone_and_tours[k][2])
              /\ \A r \in 1..Len(pruned.drone_and_tours[k][2]) :
                    TourEq(pruned_again.drone_and_tours[k][2][r],
                           pruned.drone_and_tours[k][2][r])

\* the first pruning dropped a whole tour and kept a tour of two targets,
\* and two drones hold tours when the pruned solution is pruned again
C11_Witness ==
    /\ pc = "pruned_again"
    /\ NTours(pruned.drone_and_tours) < NTours(mrs_builder)
    /\ \E s \in TourSlots(pruned.drone_and_tours) :
          Len(pruned.drone_and_tours[s[1]][2][s[2]].targets_indexes) >= 2
    /\ Cardinality({s[1] : s \in TourSlots(pruned.drone_and_tours)}) >= 2

\* the targets the pruning pass has met before it reaches the tour of
\* round r (1-based) of the k-th drone: the double loop goes round by
\* round, and drone by drone within a round
CoveredBefore(d, k, r) ==
    UNION {Range(d[s[1]][2][s[2]].targets_indexes) :
              s \in {x \in TourSlots(d) : x[2] < r \/ (x[2] = r /\ x[1] < k)}}

\* the rounds of the k-th drone whose tour the pruning pass keeps
OriginRounds(d, k) ==
    SelectSeq([r \in 1..Len(d[k][2]) |-> r],
              LAMBDA r : ~(Range(d[k][2][r].targets_indexes) \subseteq CoveredBefore(d, k, r)))

\* C12: pruning never increases cost: every tour kept by pruning is at most
\* as long as the tour of the frozen solution it was derived from (whenever
\* that tour has a length, the kept tour has one and it is not larger)
C12_PruningNeverLonger ==
    pc = "pruned" =>
        \A k \in 1..Len(pruned.drone_and_tours) :
            /\ Len(pruned.drone_and_tours[k][2]) = Len(OriginRounds(mrs_builder, k))
            /\ \A j \in 1..Len(pruned.drone_and_tours[k][2]) :
                  LET kept == pruned.drone_and_tours[k][2][j]
                      original == mrs_builder[k][2][OriginRounds(mrs_builder, k)[j]]
                  IN  ~len_tour_raises(original) =>
                          /\ ~len_tour_raises(kept)
                          /\ len_tour(kept) <= len_tour(original)

(***************************************************************************)
(* Further properties of the trajectory generation.                        *)
(***************************************************************************)
\* compute_trajectories stopped on the assertion of __compute_subtours
FeasibilityAssertionFailed ==
    /\ pc = "assert_failed"
    /\ tsp_nodes # <<>>
    /\ Len(tsp_nodes) = Cardinality(graph.nodes)

\* C13: for every target that survives the pre-filter of __remove_nodes the
\* tour depot -> target -> depot costs less time than the autonomy, so
\* compute_trajectories never stops on its feasibility assertion and returns
\* at least one tour for every starting offset
C13_SurvivorsAreFeasible ==
    /\ \A n \in graph.nodes \ {depot_index} :
          AoINodeWeight(n) * traj_drone.speed + 2 * AoIEdgeWeight(depot_index, n)
              < traj_drone.autonomy * traj_drone.speed
    /\ ~FeasibilityAssertionFailed
    /\ pc = "traj_done" => Len(output_tours) >= Len(tsp_nodes) - 1

\* the tour depot -> order[i] -> ... -> order[j] -> depot (order is 1-based
\* here and order[1] is the depot)
SliceTour(order, i, j, depot) ==
    from_graph_indexes(<<<<depot, order[i]>>>> \o
                       [k \in 1..(j - i) |-> <<order[i + k - 1], order[i + k]>>] \o
                       <<<<order[j], depot>>>>)

\* the tours compute_trajectories hands to its caller: none when it raised
ReturnedTours == IF pc = "traj_done" THEN output_tours ELSE <<>>

\* C14: compute_trajectories is complete over the contiguous slices of the
\* TSP order: every tour depot -> order[i] -> ... -> order[j] -> depot with
\* a time cost below the autonomy is in the output, and so is the
\* single-target tour of every surviving target
C14_EveryFeasibleSliceReturned ==
    (pc = "traj_done" \/ FeasibilityAssertionFailed) =>
        /\ \A i \in 2..Len(tsp_nodes), j \in 2..Len(tsp_nodes) :
              (i <= j /\ time_tour_less(SliceTour(tsp_nodes, i, j, depot_index),
                                        traj_drone.speed, traj_drone.autonomy))
                  => \E k \in 1..Len(ReturnedTours) :
                        TourEq(ReturnedTours[k], SliceTour(tsp_nodes, i, j, depot_index))
        /\ \A i \in 2..Len(tsp_nodes) :
              \E k \in 1..Len(ReturnedTours) :
                  TourEq(ReturnedTours[k], SliceTour(tsp_nodes, i, i, depot_index))

(***************************************************************************)
(* Further properties of the planners.                                     *)
(***************************************************************************)
\* C15: with max_rounds = 0 and a valid catalog, solution() raises no error
\* (the loop stops before local_optimal_choice is ever called) and returns
\* a solution that holds every agent of the catalog with zero tours, with
\* round count 0 and coverage score 0
C15_ZeroRoundsEmptySolution ==
    max_rounds = 0 =>
        /\ pc = "greedy" =>
              /\ greedy_stop_condition(visited_points, tour_to_assign)
              /\ iterations = 0
        /\ pc = "done" =>
              /\ pruned.sol.built
              /\ pruned.drone_and_tours = [i \in 1..nuavs |-> <<i - 1, <<>>>>]
              /\ pruned.sol.ndrones = nuavs
              /\ pruned.sol.max_rounds = 0
              /\ pruned.sol.targets_covered_on_each_round = <<>>
              /\ coverage_score(pruned.sol) = 0

\* solution() returned with max_rounds = 0 for two agents whose tours reach
\* targets
C15_Witness ==
    /\ pc = "done"
    /\ max_rounds = 0
    /\ nuavs = 2
    /\ reachable_points # {}

\* the tours of some agent of the catalog name two or more depots
MixedDepots(catalog) ==
    \E u \in 1..Len(catalog) : \E a, b \in 1..Len(catalog[u]) :
        catalog[u][a].depot_coord # catalog[u][b].depot_coord

\* C16: constructing a planner with a catalog in which the tours of some
\* agent reference two or more different depots fails before any greedy
\* step is executed, and no solution is produced
C16_MixedDepotsRejected ==
    MixedDepots(uavs_tours) =>
        /\ pc \in {"constructing", "init_failed"}
        /\ iterations = 0
        /\ mrs_builder = EmptyBuilder
        /\ ~mrs.built
        /\ ~pruned.sol.built

\* the construction failed for two agents and a positive number of rounds,
\* where all tours of the first agent leave from one depot
C16_Witness ==
    /\ pc = "init_failed"
    /\ nuavs = 2
    /\ max_rounds > 0
    /\ MixedDepots(uavs_tours)
    /\ ~MixedDepots(<<uavs_tours[1]>>)

(***************************************************************************)
(* Properties of the constructors.                                         *)
(***************************************************************************)
\* two of the points given to the AoI constructor share coordinates
SharedCoordinates(args) ==
    \/ Cardinality(Range(args.target_points)) # Len(args.target_points)
    \/ Cardinality(Range(args.depots)) # Len(args.depots)
    \/ Range(args.target_points) \cap Range(args.depots) # {}

\* C17: the construction of an AoI is rejected whenever two of the given
\* points share coordinates (a repeated target, a repeated depot, or a
\* coordinate given both as a target and as a depot), so the node
\* positions of a constructed AoI are pairwise distinct
C17_NoSharedCoordinates ==
    /\ (pc # "aoi_call" /\ SharedCoordinates(aoi_args)) => pc = "aoi_rejected"
    /\ pc = "aoi_built" =>
          \A i, j \in 1..Len(aoi_obj.node_pos) :
              i # j => aoi_obj.node_pos[i] # aoi_obj.node_pos[j]

\* C18: every Tour that is constructed references exactly one depot and its
\* ordered list of targets holds no target twice
C18_TourOneDepotNoRepeat ==
    pc = "tour_built" =>
        /\ Cardinality({tour_args[k][1] : k \in 1..Len(tour_args)} \cap Range(depots)) = 1
        /\ tour_obj.depot_index # Unset
        /\ \A i, j \in 1..Len(tour_obj.targets_indexes) :
              i # j => tour_obj.targets_indexes[i] # tour_obj.targets_indexes[j]

(***************************************************************************)
(* Properties of the solution object.                                      *)
(***************************************************************************)
\* C19: a solution returned by build() is immutable with respect to the
\* builder: after any later add_drone, append_tour or add_drone_with_tours
\* on the builder, the agents and tour lists of the solution are those its
\* derived fields were computed from when it was built (number of agents,
\* round count, covered nodes and targets, newly covered targets per round)
C19_SolutionImmutable ==
    pc = "frozen" => mrs = MultiRoundSolution(mrs_builder)

\* the rounds (1-based) in which some agent's tour of the dict leaves from
\* the point t
RoundsVisiting(d, t) ==
    {s[2] : s \in {x \in TourSlots(d) :
                      \E e \in 1..Len(d[x[1]][2][x[2]].edges_w_indexes) :
                          NodePos(d[x[1]][2][x[2]].edges_w_indexes[e][1]) = t}}

\* the sizes of a list of sets, added up
RECURSIVE SumOfSizes(_)
SumOfSizes(sets) ==
    IF sets = <<>> THEN 0 ELSE Cardinality(Head(sets)) + SumOfSizes(Tail(sets))

\* the property of C20 for a solution sol with the drone_and_tours dict d
RoundsPartitionCoverage(sol, d) ==
    LET per_round == sol.targets_covered_on_each_round
    IN  /\ Len(per_round) = sol.max_rounds
        /\ \A k \in 1..Len(d) : Len(d[k][2]) <= sol.max_rounds
        /\ sol.max_rounds > 0 => \E k \in 1..Len(d) : Len(d[k][2]) = sol.max_rounds
        /\ \A r \in 1..Len(per_round) : per_round[r] \subseteq sol.covered_graph_targets
        /\ \A t \in sol.covered_graph_targets :
              /\ RoundsVisiting(d, t) # {}
              /\ \A r \in 1..Len(per_round) :
                    t \in per_round[r] <=> (r \in RoundsVisiting(d, t) /\
                                            \A o \in RoundsVisiting(d, t) : r <= o)
        /\ \A r1, r2 \in 1..Len(per_round) : r1 # r2 => per_round[r1] \cap per_round[r2] = {}
        /\ SumOfSizes(per_round) = coverage_score(sol)

\* C20: in every MultiRoundSolution each covered target is in exactly one
\* round's newly-covered set, the one of the first round in which some
\* agent's tour holds it; the per-round sets are pairwise disjoint, their
\* sizes add up to coverage_score(), and the round count is the largest
\* number of tours any agent holds (the tours are those of the solution's
\* drone_and_tours, which is the builder's dict)
C20_RoundsPartitionCoverage ==
    /\ pc \in {"frozen", "pruned", "pruned_again"} => RoundsPartitionCoverage(mrs, mrs_builder)
    /\ pc \in {"pruned", "pruned_again"} =>
          RoundsPartitionCoverage(pruned.sol, pruned.drone_and_tours)

(***************************************************************************)
(* Further properties of the greedy loop.                                  *)
(***************************************************************************)
\* the set of targets of the only tour of uav u (0-based)
OnlyTourTargets(u) == Range(UavTours(u)[1].targets_indexes)

\* two agents, two rounds, total coverage, one tour each, the two tours
\* covering disjoint non-empty target sets of different sizes
TwoDisjointTours ==
    /\ strategy = "total"
    /\ max_rounds = 2
    /\ nuavs = 2
    /\ Len(UavTours(0)) = 1
    /\ Len(UavTours(1)) = 1
    /\ OnlyTourTargets(0) \cap OnlyTourTargets(1) = {}
    /\ OnlyTourTargets(0) # {}
    /\ OnlyTourTargets(1) # {}
    /\ Cardinality(OnlyTourTargets(0)) # Cardinality(OnlyTourTargets(1))

\* the agent whose only tour covers more targets, and the other one
LargerUav == IF Cardinality(OnlyTourTargets(0)) > Cardinality(OnlyTourTargets(1)) THEN 0 ELSE 1

SmallerUav == 1 - LargerUav

\* C21: with two agents, max_rounds = 2 and catalogs of one tour each that
\* cover disjoint target sets of sizes a > b > 0, the total-coverage planner
\* selects the size-a tour in its first step and the size-b tour in its
\* second, then stops with |visited| = a + b after exactly two iterations,
\* each agent using one round.
C21_LargerTourFirst ==
    (TwoDisjointTours /\ pc \in {"greedy", "done"}) =>
        /\ iterations <= 2
        /\ iterations = 1 =>
              /\ choice = <<LargerUav, 0>>
              /\ visited_points = OnlyTourTargets(LargerUav)
              /\ ~greedy_stop_condition(visited_points, tour_to_assign)
        /\ iterations = 2 =>
              /\ choice = <<SmallerUav, 0>>
              /\ greedy_stop_condition(visited_points, tour_to_assign)
        /\ pc = "done" =>
              /\ iterations = 2
              /\ Cardinality(visited_points) =
                    Cardinality(OnlyTourTargets(0)) + Cardinality(OnlyTourTargets(1))
              /\ \A k \in 1..2 : mrs_builder[k][2] = <<UavTours(k - 1)[1]>>
              /\ mrs.max_rounds = 1

\* C21 happens: such a run returned, the second agent holding the larger tour
C21_Witness ==
    /\ TwoDisjointTours
    /\ pc = "done"
    /\ iterations = 2
    /\ LargerUav = 1

(***************************************************************************)
(* Further properties of Christofides.                                     *)
(***************************************************************************)
\* C22: for any input graph given to Christofides.compute, graphs built
\* from an explicit list of viable paths included, every vertex of the
\* multigraph of the spanning tree edges and the matching edges has even
\* degree, so the Eulerian assertion never fails.
C22_EulerianAssertionHolds ==
    /\ pc \in {"tsp_euler", "tsp_done", "assert_failed"} =>
          \A v \in graph.nodes :
              EuDegree(EuGraph(graph.nodes, mst, perfect_match), v) % 2 = 0
    /\ pc # "assert_failed"

\* the matchings of the complete graph on S that leave no node of S out
PerfectMatchings(S) == {m \in Matchings(S) : UNION {{e[1], e[2]} : e \in m} = S}

\* C23: the matching min_weight_matching returns on the nodes of odd degree
\* of the spanning tree (found by maximising the sum of the reciprocal
\* weights) is a perfect matching of those nodes, and its weight is the
\* least among all their perfect matchings, for all positive weights.
C23_MatchingIsMinimumWeight ==
    pc \in {"tsp_euler", "tsp_done"} =>
        /\ perfect_match \in PerfectMatchings(odd_nodes(mst, graph.nodes))
        /\ \A m \in PerfectMatchings(odd_nodes(mst, graph.nodes)) :
               SumWeights(graph, perfect_match) <= SumWeights(graph, m)

(***************************************************************************)
(* Further properties of the trajectories.                                 *)
(***************************************************************************)
\* the slice order[i..j] of the TSP order costs less time than the autonomy
SliceFeasible(i, j) ==
    time_tour_less(SliceTour(tsp_nodes, i, j, depot_index),
                   traj_drone.speed, traj_drone.autonomy)

\* the ends j of the slices order[i..j] in the output (order is 1-based here
\* and order[1] is the depot)
EmittedEnds(i) ==
    {j \in i..Len(tsp_nodes) :
        \E k \in 1..Len(output_tours) :
            TourEq(output_tours[k], SliceTour(tsp_nodes, i, j, depot_index))}

\* C24: within one starting offset i of the TSP order the emitted tours are
\* exactly the slices order[i..j] for j in a contiguous range i..k: once a
\* grown sub-tour fails time cost < autonomy, no longer sub-tour starting at
\* offset i is emitted.
C24_SlicesStopAtFirstFailure ==
    pc \in {"subtours", "traj_done"} =>
        /\ \A k \in 1..Len(output_tours) :
              \E i \in 2..(tsp_node_index), j \in 2..Len(tsp_nodes) :
                  i <= j /\ TourEq(output_tours[k], SliceTour(tsp_nodes, i, j, depot_index))
        /\ \A k1, k2 \in 1..Len(output_tours) :
              TourEq(output_tours[k1], output_tours[k2]) => k1 = k2
        /\ \A i \in 2..Len(tsp_nodes) :
              /\ i > tsp_node_index => EmittedEnds(i) = {}
              /\ i <= tsp_node_index =>
                    /\ i \in EmittedEnds(i)
                    /\ \A j \in EmittedEnds(i) : \A l \in i..j : l \in EmittedEnds(i)
                    /\ \A j \in i..Len(tsp_nodes) :
                          ~SliceFeasible(i, j) =>
                              \A l \in j..Len(tsp_nodes) : l \notin EmittedEnds(i)

\* C24 happens: at some offset a grown sub-tour was emitted, the next one
\* failed, and a still longer slice from that offset was left untried
C24_Witness ==
    /\ pc = "traj_done"
    /\ \E i \in 2..Len(tsp_nodes), j \in 2..Len(tsp_nodes) :
          /\ i < j
          /\ j < Len(tsp_nodes)
          /\ j - 1 \in EmittedEnds(i)
          /\ ~SliceFeasible(i, j)

(***************************************************************************)
(* The order of pruning and the order of selection.                        *)
(***************************************************************************)
\* the tour selected by the k-th greedy iteration
SelectedTour(k) == UavTours(selections[k][1])[selections[k][2] + 1]

\* the round (1-based) the k-th selected tour takes in the list of its agent
SelectionRound(k) == Cardinality({j \in 1..k : selections[j][1] = selections[k][1]})

\* the iteration that selected the tour of round r (1-based) of uav u
SelectionOf(u, r) ==
    CHOOSE k \in 1..Len(selections) : selections[k][1] = u /\ SelectionRound(k) = r

\* the targets of the k-th selected tour that were not visited when the
\* greedy loop selected it
NewWhenSelected(k) ==
    Range(SelectedTour(k).targets_indexes) \
    UNION {Range(SelectedTour(j).targets_indexes) : j \in 1..(k - 1)}

\* the tour of selection j is examined by pruning before the tour of
\* selection k: round-major, agent-minor
ExaminedBefore(j, k) ==
    \/ SelectionRound(j) < SelectionRound(k)
    \/ SelectionRound(j) = SelectionRound(k) /\ selections[j][1] < selections[k][1]

\* the targets of the k-th selected tour that no tour examined earlier holds
NotExaminedEarlier(k) ==
    Range(SelectedTour(k).targets_indexes) \
    UNION {Range(SelectedTour(j).targets_indexes) :
              j \in {i \in 1..Len(selections) : ExaminedBefore(i, k)}}

\* the tours uav u holds when every selected tour keeps the targets
\* Keep(k) of its selection k, in their order, and a tour that keeps no
\* target is dropped
KeptTours(u, Keep(_)) ==
    LET n == Cardinality({k \in 1..Len(selections) : selections[k][1] = u})
        kept == [r \in 1..n |->
                    SelectSeq(SelectedTour(SelectionOf(u, r)).targets_indexes,
                              LAMBDA t : t \in Keep(SelectionOf(u, r)))]
        rounds == SelectSeq([r \in 1..n |-> r], LAMBDA r : kept[r] # <<>>)
    IN  [i \in 1..Len(rounds) |->
            from_graph_indexes(build_tour_from_ordered_nodes(
                <<SelectedTour(SelectionOf(u, rounds[i])).depot_index>> \o kept[rounds[i]]))]

\* pruning examined the tours in the order the greedy loop selected them
ExaminedInSelectionOrder ==
    \A j, k \in 1..Len(selections) : j < k => ExaminedBefore(j, k)

C26_KeptToursInOrder ==
    pc = "pruned" =>
        /\ DictKeys(pruned.drone_and_tours) = DictKeys(mrs_builder)
        /\ \A k \in 1..Len(pruned.drone_and_tours) :
              /\ Len(pruned.drone_and_tours[k][2]) = Len(OriginRounds(mrs_builder, k))
              /\ \A j \in 1..Len(pruned.drone_and_tours[k][2]) :
                    LET kept == pruned.drone_and_tours[k][2][j]
                        round == OriginRounds(mrs_builder, k)[j]
                        original == mrs_builder[k][2][round]
                        edges == kept.edges_w_indexes
                    IN  /\ kept.targets_indexes # <<>>
                        /\ kept.targets_indexes =
                              SelectSeq(original.targets_indexes,
                                        LAMBDA t : t \notin CoveredBefore(mrs_builder, k, round))
                        /\ kept.depot_index = original.depot_index
                        /\ Len(edges) = Len(kept.targets_indexes) + 1
                        /\ edges[1] = <<original.depot_index, kept.targets_indexes[1]>>
                        /\ edges[Len(edges)] =
                              <<kept.targets_indexes[Len(kept.targets_indexes)],
                                original.depot_index>>
                        /\ \A e \in 2..(Len(edges) - 1) :
                              edges[e] = <<kept.targets_indexes[e - 1], kept.targets_indexes[e]>>

\* C26 happens: an agent lost a whole tour to pruning and its next tour moved
\* one round earlier, having lost one of its two targets
C26_Witness ==
    /\ pc = "pruned"
    /\ \E k \in 1..Len(mrs_builder) : \E j \in 1..Len(pruned.drone_and_tours[k][2]) :
          /\ OriginRounds(mrs_builder, k)[j] > j
          /\ Len(pruned.drone_and_tours[k][2][j].targets_indexes) <
                Len(mrs_builder[k][2][OriginRounds(mrs_builder, k)[j]].targets_indexes)

(***************************************************************************)
(* Invariants of the greedy loop.                                          *)
(***************************************************************************)
\* the sum of the residual rounds of all agents
RECURSIVE SumList(_)
SumList(s) == IF s = <<>> THEN 0 ELSE Head(s) + SumList(Tail(s))

\* C27: after any number of iterations of the greedy loop, for every agent
\* 0 <= residual rounds <= max_rounds and residual rounds + number of tours
\* appended for that agent = max_rounds; the global counter equals the sum
\* of all residuals; visited equals the union of the target sets of all
\* tours appended so far.  No agent holds more than max_rounds tours in
\* the returned plan.
C27_GreedyLoopInvariant ==
    pc \in {"greedy", "done"} =>
        /\ Len(residual_ntours_to_assign) = nuavs
        /\ Len(mrs_builder) = nuavs
        /\ \A u \in 1..nuavs :
              /\ 0 <= residual_ntours_to_assign[u]
              /\ residual_ntours_to_assign[u] <= max_rounds
              /\ residual_ntours_to_assign[u] + Len(mrs_builder[u][2]) = max_rounds
        /\ tour_to_assign = SumList(residual_ntours_to_assign)
        /\ visited_points = PlanTargets(mrs_builder)
        /\ pc = "done" =>
              /\ \A u \in 1..nuavs : Len(mrs_builder[u][2]) <= max_rounds
              /\ \A u \in 1..Len(pruned.drone_and_tours) :
                    Len(pruned.drone_and_tours[u][2]) <= max_rounds
              /\ mrs.max_rounds <= max_rounds
              /\ pruned.sol.max_rounds <= max_rounds

\* C27 happens: the loop returned after it used both rounds of one agent
\* and none of another
C27_Witness ==
    /\ pc = "done"
    /\ max_rounds = 2
    /\ \E u \in 1..nuavs : residual_ntours_to_assign[u] = 0
    /\ \E u \in 1..nuavs : residual_ntours_to_assign[u] = max_rounds
    /\ visited_points # {}

\* C28: when solution() returns, either the greedy loop consumed all
\* max_rounds * nuavs agent-rounds, or the returned plan covers every target
\* that appears in any tour of the catalog; the loop never stops earlier.
C28_StopsOnlyWhenDone ==
    pc = "done" =>
        \/ /\ iterations = max_rounds * nuavs
           /\ NTours(mrs_builder) = max_rounds * nuavs
        \/ /\ visited_points = reachable_points
           /\ pruned.sol.covered_graph_targets = {NodePos(t) : t \in reachable_points}

\* C28 happens: the loop returned with rounds left after it covered the
\* reachable targets in two iterations or more
C28_Witness ==
    /\ pc = "done"
    /\ iterations >= 2
    /\ iterations < max_rounds * nuavs
    /\ Cardinality(reachable_points) >= 2
    /\ pruned.sol.covered_graph_targets = {NodePos(t) : t \in reachable_points}

(***************************************************************************)
(* Coverage round by round, before and after pruning.                      *)
(***************************************************************************)
\* the targets a solution covers in its rounds 1..r (r may pass the last)
CoveredUpTo(sol, r) ==
    UNION {sol.targets_covered_on_each_round[i] :
              i \in 1..(IF r <= sol.max_rounds THEN r ELSE sol.max_rounds)}

\* the first round (1-based) in which some tour of the dict leaves from t
FirstRound(d, t) == CHOOSE r \in RoundsVisiting(d, t) : \A o \in RoundsVisiting(d, t) : r <= o

\* C29: pruning never delays coverage: for every round index r the number
\* of distinct targets covered in rounds 0..r of the pruned solution is at
\* least the number covered in rounds 0..r of the input solution, and the
\* first round that covers a target after pruning is not later than the
\* first round that covered it before.
C29_PruningNeverDelays ==
    pc = "pruned" =>
        /\ \A r \in 1..mrs.max_rounds :
              /\ Cardinality(CoveredUpTo(pruned.sol, r)) >= Cardinality(CoveredUpTo(mrs, r))
              /\ CoveredUpTo(mrs, r) \subseteq CoveredUpTo(pruned.sol, r)
        /\ \A t \in mrs.covered_graph_targets :
              /\ RoundsVisiting(pruned.drone_and_tours, t) # {}
              /\ FirstRound(pruned.drone_and_tours, t) <= FirstRound(mrs_builder, t)

\* C29 happens: a target is covered one round earlier after pruning, and
\* the first round of the pruned solution covers more than that of the input
C29_Witness ==
    /\ pc = "pruned"
    /\ mrs.max_rounds >= 2
    /\ \E t \in mrs.covered_graph_targets :
          FirstRound(pruned.drone_and_tours, t) < FirstRound(mrs_builder, t)
    /\ Cardinality(CoveredUpTo(pruned.sol, 1)) > Cardinality(CoveredUpTo(mrs, 1))

(***************************************************************************)
(* The scores of the selected tours, iteration after iteration.            *)
(***************************************************************************)
\* the score the k-th selected tour had when it was selected: its new
\* targets, times the residual rounds of its agent for cumulative coverage
SelectionScore(k) ==
    IF strategy = "total" THEN Cardinality(NewWhenSelected(k))
    ELSE (max_rounds - (SelectionRound(k) - 1)) * Cardinality(NewWhenSelected(k))

\* C30: in both strategies the score of the candidate the greedy loop
\* selects is non-increasing from one iteration to the next (for total
\* coverage the number of new targets added per step never grows).
C30_ScoresNeverGrow ==
    pc \in {"greedy", "done"} =>
        /\ Len(selections) = iterations
        /\ iterations >= 1 =>
              /\ selections[iterations] = choice
              /\ SelectionScore(iterations) = Score(choice, call_visited_points, call_residual)
        /\ \A k \in 2..Len(selections) : SelectionScore(k) <= SelectionScore(k - 1)
        /\ strategy = "total" =>
              \A k \in 2..Len(selections) :
                  Cardinality(NewWhenSelected(k)) <= Cardinality(NewWhenSelected(k - 1))

\* C30 happens: with cumulative coverage the score fell from the first
\* iteration to the second although as many new targets were added
C30_Witness ==
    /\ pc = "done"
    /\ strategy = "cumulative"
    /\ Len(selections) = 2
    /\ SelectionScore(2) < SelectionScore(1)
    /\ SelectionScore(2) > 0
    /\ Cardinality(NewWhenSelected(2)) = Cardinality(NewWhenSelected(1))

=============================================================================
